---- MODULE Spec2Model ----
(***************************************************************************)
(* Model of the localization workflow of scripts/i18n_workflow.py (and the *)
(* twin orchestrator of scripts/localize_with_openai.py): token            *)
(* fingerprinting and validation, the batch translation orchestrator with  *)
(* its bounded retry loop, and the merge of the result rows into the       *)
(* string catalogs.                                                        *)
(*                                                                         *)
(* A text is a sequence of one-character strings, so that the regular      *)
(* expressions of the source are evaluated character by character.         *)
(***************************************************************************)
EXTENDS Integers, Sequences, FiniteSets, TLC

(***************************************************************************)
(* Bounds of the model.                                                    *)
(***************************************************************************)
\* Largest number of Candidates handed to translate_candidates.
MaxCandidates == 3

\* Batch size. The scripts use 30 (i18n_workflow.py:33) and 25
\* (localize_with_openai.py:28); the model scales it down so that several
\* batches occur within MaxCandidates.
BATCH_SIZE == 2

\* i18n_workflow.py:34, localize_with_openai.py:29
MAX_RETRIES == 2

\* Python's None where a string is expected (an absent string field).
None == "None"

\* An optional value that is not a string: Nothing for None or absent,
\* Some(x) for the value x, its content being opt[1].
Nothing == <<>>

Some(x) == <<x>>

(***************************************************************************)
(* Characters and texts.                                                   *)
(***************************************************************************)
UpperLetters == <<"A","B","C","D","E","F","G","H","I","J","K","L","M",
                  "N","O","P","Q","R","S","T","U","V","W","X","Y","Z">>

LowerLetters == <<"a","b","c","d","e","f","g","h","i","j","k","l","m",
                  "n","o","p","q","r","s","t","u","v","w","x","y","z">>

DigitChars == <<"0","1","2","3","4","5","6","7","8","9">>

Range(seq) == {seq[i] : i \in DOMAIN seq}

IndexOf(seq, c) == CHOOSE i \in DOMAIN seq : seq[i] = c

IsUpper(c) == c \in Range(UpperLetters)

IsLower(c) == c \in Range(LowerLetters)

\* [A-Za-z]
IsAlpha(c) == IsUpper(c) \/ IsLower(c)

\* \d
IsDigit(c) == c \in Range(DigitChars)

\* str.strip() / str.isspace(): the whitespace of the model's alphabet.
IsSpace(c) == c \in {" ", "\t", "\n"}

\* str.lower() on one character.
LowerChar(c) == IF IsUpper(c) THEN LowerLetters[IndexOf(UpperLetters, c)] ELSE c

\* str.lower()
Lower(text) == [i \in DOMAIN text |-> LowerChar(text[i])]

\* Unicode code point of a character of the model's alphabet.
CodePoint(c) ==
    CASE IsUpper(c) -> 64 + IndexOf(UpperLetters, c)
      [] IsLower(c) -> 96 + IndexOf(LowerLetters, c)
      [] IsDigit(c) -> 47 + IndexOf(DigitChars, c)
      [] c = "\t" -> 9
      [] c = "\n" -> 10
      [] c = " " -> 32
      [] c = "!" -> 33
      [] c = "\"" -> 34
      [] c = "#" -> 35
      [] c = "$" -> 36
      [] c = "%" -> 37
      [] c = "(" -> 40
      [] c = ")" -> 41
      [] c = "+" -> 43
      [] c = "-" -> 45
      [] c = "." -> 46
      [] c = "?" -> 63
      [] c = "@" -> 64
      [] c = "\\" -> 92
      [] c = "°" -> 176

\* Python's str comparison a < b: lexicographic by code point.
RECURSIVE StrLess(_, _)
StrLess(a, b) ==
    IF b = <<>> THEN FALSE
    ELSE IF a = <<>> THEN TRUE
    ELSE IF CodePoint(a[1]) # CodePoint(b[1]) THEN CodePoint(a[1]) < CodePoint(b[1])
    ELSE StrLess(Tail(a), Tail(b))

\* text.strip() is empty.
IsBlank(text) == \A i \in DOMAIN text : IsSpace(text[i])

\* text.startswith(prefix)
StartsWith(text, prefix) ==
    Len(text) >= Len(prefix) /\ SubSeq(text, 1, Len(prefix)) = prefix

\* needle in text
Contains(text, needle) ==
    \E i \in 1..(Len(text) - Len(needle) + 1) :
        SubSeq(text, i, i + Len(needle) - 1) = needle

\* text.strip().startswith("%")
StripStartsWithPercent(text) ==
    \E i \in DOMAIN text :
        /\ text[i] = "%"
        /\ \A j \in 1..(i - 1) : IsSpace(text[j])

(***************************************************************************)
(* Token extractor and validator (i18n_workflow.py:56-57, 287-306).        *)
(***************************************************************************)
\* The flag class [#+0\- ] of FORMAT_PLACEHOLDER_RE.
IsFlagChar(c) == c \in {"#", "+", "0", "-", " "}

\* The conversion class [a-zA-Z@] of FORMAT_PLACEHOLDER_RE.
IsConversionChar(c) == IsAlpha(c) \/ c = "@"

\* FORMAT_PLACEHOLDER_RE between "%" and the conversion character,
\*   (?:\d+\$)?[#+0\- ]*(?:\d+)?(?:\.\d+)?
\* as a nondeterministic automaton: the states reached from `states` on c.
\*   start: nothing read          pos:   inside \d+ of the positional index
\*   flags: inside [#+0\- ]*      width: inside (?:\d+)
\*   dot:   "." read              prec:  inside \d+ of the precision
PlaceholderStep(states, c) ==
    {t \in {"pos", "flags", "width", "dot", "prec"} :
        \/ t = "pos"   /\ IsDigit(c)    /\ states \cap {"start", "pos"} # {}
        \/ t = "flags" /\ IsFlagChar(c) /\ states \cap {"start", "flags"} # {}
        \/ t = "flags" /\ c = "$"       /\ "pos" \in states
        \/ t = "width" /\ IsDigit(c)    /\ states \cap {"start", "flags", "width"} # {}
        \/ t = "dot"   /\ c = "."       /\ states \cap {"start", "flags", "width"} # {}
        \/ t = "prec"  /\ IsDigit(c)    /\ states \cap {"dot", "prec"} # {}}

\* The states in which the conversion character may follow.
PlaceholderAccepting == {"start", "flags", "width", "prec"}

\* End index of the match of FORMAT_PLACEHOLDER_RE whose "%" has been read,
\* scanning from index j in automaton states `states`; 0 when there is none.
\* No character before the conversion character is a letter or "@", so the
\* match, when there is one, ends at the first such character.
RECURSIVE PlaceholderScan(_, _, _)
PlaceholderScan(text, j, states) ==
    IF j > Len(text) THEN 0
    ELSE IF IsConversionChar(text[j])
         THEN (IF states \cap PlaceholderAccepting # {} THEN j ELSE 0)
    ELSE LET nxt == PlaceholderStep(states, text[j])
         IN  IF nxt = {} THEN 0 ELSE PlaceholderScan(text, j + 1, nxt)

\* FORMAT_PLACEHOLDER_RE.match at index i: end index of the match, or 0.
PlaceholderMatchEnd(text, i) ==
    IF text[i] = "%" THEN PlaceholderScan(text, i + 1, {"start"}) ELSE 0

\* First index >= j of a ")" in text, or 0.
RECURSIVE FirstCloseParen(_, _)
FirstCloseParen(text, j) ==
    IF j > Len(text) THEN 0
    ELSE IF text[j] = ")" THEN j
    ELSE FirstCloseParen(text, j + 1)

\* INTERPOLATION_RE = \\\([^\)]+\) matched at index i: end index, or 0.
InterpolationMatchEnd(text, i) ==
    IF i + 1 <= Len(text) /\ text[i] = "\\" /\ text[i + 1] = "("
    THEN LET close == FirstCloseParen(text, i + 2)
         IN  IF close >= i + 3 THEN close ELSE 0
    ELSE 0

\* FORMAT_PLACEHOLDER_RE.findall(text), scanning from index i: the
\* non-overlapping matches from left to right.
RECURSIVE FindPlaceholders(_, _)
FindPlaceholders(text, i) ==
    IF i > Len(text) THEN <<>>
    ELSE LET e == PlaceholderMatchEnd(text, i)
         IN  IF e # 0 THEN <<SubSeq(text, i, e)>> \o FindPlaceholders(text, e + 1)
             ELSE FindPlaceholders(text, i + 1)

\* INTERPOLATION_RE.findall(text), scanning from index i.
RECURSIVE FindInterpolations(_, _)
FindInterpolations(text, i) ==
    IF i > Len(text) THEN <<>>
    ELSE LET e == InterpolationMatchEnd(text, i)
         IN  IF e # 0 THEN <<SubSeq(text, i, e)>> \o FindInterpolations(text, e + 1)
             ELSE FindInterpolations(text, i + 1)

UnitF == <<"°", "F">>

UnitC == <<"°", "C">>

\* The unit symbols of text, one for each occurrence, from index i on.
RECURSIVE UnitOccurrences(_, _)
UnitOccurrences(text, i) ==
    IF i + 1 > Len(text) THEN <<>>
    ELSE (IF SubSeq(text, i, i + 1) \in {UnitF, UnitC}
          THEN <<SubSeq(text, i, i + 1)>> ELSE <<>>)
             \o UnitOccurrences(text, i + 1)

\* An extractor that lists the unit symbols occurrence by occurrence.
FindUnits_EveryOccurrence(text) == UnitOccurrences(text, 1)

\* tuple(unit for unit in ("°F", "°C") if unit in text)
FindUnits(text) ==
    (IF Contains(text, UnitF) THEN <<UnitF>> ELSE <<>>)
        \o (IF Contains(text, UnitC) THEN <<UnitC>> ELSE <<>>)

\* extract_token_set(text) -> (placeholders, interpolations, units)
extract_token_set(text) ==
    [placeholders   |-> FindPlaceholders(text, 1),
     interpolations |-> FindInterpolations(text, 1),
     units          |-> FindUnits(text)]

\* The sequences of seq joined in order.
RECURSIVE Concat(_)
Concat(seq) == IF seq = <<>> THEN <<>> ELSE seq[1] \o Concat(Tail(seq))

\* A validator that also rejects a target equal to its source.
validate_translation_RejectingIdentity(source, target) ==
    LET src == extract_token_set(source)
        dst == extract_token_set(target)
    IN  IF target = source
        THEN [ok |-> FALSE, reason |-> "untranslated", expected |-> <<>>, got |-> <<>>]
        ELSE IF src # dst
        THEN [ok |-> FALSE, reason |-> "token mismatch", expected |-> <<>>, got |-> <<>>]
        ELSE IF IsBlank(target)
        THEN [ok |-> FALSE, reason |-> "empty translation", expected |-> <<>>, got |-> <<>>]
        ELSE [ok |-> TRUE, reason |-> "ok", expected |-> <<>>, got |-> <<>>]

\* A validator that skips the comparison of the interpolation tuples.
validate_translation_SkippingInterpolations(source, target) ==
    LET src == extract_token_set(source)
        dst == extract_token_set(target)
    IN  IF src.placeholders # dst.placeholders
        THEN [ok |-> FALSE, reason |-> "placeholder mismatch",
              expected |-> src.placeholders, got |-> dst.placeholders]
        ELSE IF src.units # dst.units
        THEN [ok |-> FALSE, reason |-> "unit mismatch",
              expected |-> src.units, got |-> dst.units]
        ELSE IF IsBlank(target)
        THEN [ok |-> FALSE, reason |-> "empty translation",
              expected |-> <<>>, got |-> <<>>]
        ELSE [ok |-> TRUE, reason |-> "ok", expected |-> <<>>, got |-> <<>>]

\* A validator that compares the interpolation spans as sets.
validate_translation_InterpolationsAsSets(source, target) ==
    LET src == extract_token_set(source)
        dst == extract_token_set(target)
    IN  IF src.placeholders # dst.placeholders
        THEN [ok |-> FALSE, reason |-> "placeholder mismatch",
              expected |-> src.placeholders, got |-> dst.placeholders]
        ELSE IF Range(src.interpolations) # Range(dst.interpolations)
        THEN [ok |-> FALSE, reason |-> "interpolation mismatch",
              expected |-> src.interpolations, got |-> dst.interpolations]
        ELSE IF src.units # dst.units
        THEN [ok |-> FALSE, reason |-> "unit mismatch",
              expected |-> src.units, got |-> dst.units]
        ELSE IF IsBlank(target)
        THEN [ok |-> FALSE, reason |-> "empty translation",
              expected |-> <<>>, got |-> <<>>]
        ELSE [ok |-> TRUE, reason |-> "ok", expected |-> <<>>, got |-> <<>>]

\* A validator that makes the empty check first.
validate_translation_EmptyFirst(source, target) ==
    LET src == extract_token_set(source)
        dst == extract_token_set(target)
    IN  IF IsBlank(target)
        THEN [ok |-> FALSE, reason |-> "empty translation",
              expected |-> <<>>, got |-> <<>>]
        ELSE IF src.placeholders # dst.placeholders
        THEN [ok |-> FALSE, reason |-> "placeholder mismatch",
              expected |-> src.placeholders, got |-> dst.placeholders]
        ELSE IF src.interpolations # dst.interpolations
        THEN [ok |-> FALSE, reason |-> "interpolation mismatch",
              expected |-> src.interpolations, got |-> dst.interpolations]
        ELSE IF src.units # dst.units
        THEN [ok |-> FALSE, reason |-> "unit mismatch",
              expected |-> src.units, got |-> dst.units]
        ELSE [ok |-> TRUE, reason |-> "ok", expected |-> <<>>, got |-> <<>>]

\* A validator that takes a target without a letter outside its tokens
\* for an empty one.
validate_translation_TokensOnlyIsEmpty(source, target) ==
    LET src == extract_token_set(source)
        dst == extract_token_set(target)
        tokenChars == Len(Concat(dst.placeholders)) + Len(Concat(dst.interpolations))
                        + Len(Concat(dst.units))
    IN  IF src.placeholders # dst.placeholders
        THEN [ok |-> FALSE, reason |-> "placeholder mismatch",
              expected |-> src.placeholders, got |-> dst.placeholders]
        ELSE IF src.interpolations # dst.interpolations
        THEN [ok |-> FALSE, reason |-> "interpolation mismatch",
              expected |-> src.interpolations, got |-> dst.interpolations]
        ELSE IF src.units # dst.units
        THEN [ok |-> FALSE, reason |-> "unit mismatch",
              expected |-> src.units, got |-> dst.units]
        ELSE IF Len(SelectSeq(target, LAMBDA c : ~IsSpace(c))) <= tokenChars
        THEN [ok |-> FALSE, reason |-> "empty translation",
              expected |-> <<>>, got |-> <<>>]
        ELSE [ok |-> TRUE, reason |-> "ok", expected |-> <<>>, got |-> <<>>]

\* validate_translation(source, target) -> (ok, reason); the reason keeps
\* the leading words of the message and the two tuples it prints.
validate_translation(source, target) ==
    LET src == extract_token_set(source)
        dst == extract_token_set(target)
    IN  IF src.placeholders # dst.placeholders
        THEN [ok |-> FALSE, reason |-> "placeholder mismatch",
              expected |-> src.placeholders, got |-> dst.placeholders]
        ELSE IF src.interpolations # dst.interpolations
        THEN [ok |-> FALSE, reason |-> "interpolation mismatch",
              expected |-> src.interpolations, got |-> dst.interpolations]
        ELSE IF src.units # dst.units
        THEN [ok |-> FALSE, reason |-> "unit mismatch",
              expected |-> src.units, got |-> dst.units]
        ELSE IF IsBlank(target)
        THEN [ok |-> FALSE, reason |-> "empty translation",
              expected |-> <<>>, got |-> <<>>]
        ELSE [ok |-> TRUE, reason |-> "ok", expected |-> <<>>, got |-> <<>>]

(***************************************************************************)
(* Candidate pre-filter (i18n_workflow.py:59-85, 148-161).                 *)
(***************************************************************************)
\* The members of SKIP_LITERALS that fit the model's alphabet.
SKIP_LITERALS ==
    {<<"t","r","a","s","h">>, <<"e","q","u","a","l">>, <<"x","m","a","r","k">>,
     <<"c","l","o","c","k">>, <<"g","e","a","r">>}

\* looks_translatable(text)
looks_translatable(text) ==
    /\ ~IsBlank(text)
    /\ text \notin SKIP_LITERALS
    /\ ~StripStartsWithPercent(text)
    /\ ~StartsWith(text, <<"\\", "(">>)
    /\ \E i \in DOMAIN text : IsAlpha(text[i])

(***************************************************************************)
(* Python dicts as functions on the set of their keys.                     *)
(***************************************************************************)
EmptyDict == <<>>

\* d.get(k, default)
Get(d, k, default) == IF k \in DOMAIN d THEN d[k] ELSE default

\* d[k] = v
Put(d, k, v) == [x \in DOMAIN d \cup {k} |-> IF x = k THEN v ELSE d[x]]

\* d[k] = f[k] for every k of keys
PutAll(d, keys, f) == [x \in DOMAIN d \cup keys |-> IF x \in keys THEN f[x] ELSE d[x]]

Min(a, b) == IF a <= b THEN a ELSE b

(***************************************************************************)
(* Batching (i18n_workflow.py:164-166).                                    *)
(***************************************************************************)
\* ceil(Len(values) / size): the number of chunks chunked() yields.
NumChunks(values, size) == (Len(values) + size - 1) \div size

\* A chunked that yields one chunk more when size divides the length.
chunked_WithTrailingChunk(values, size) ==
    [k \in 1..(Len(values) \div size + 1) |->
        SubSeq(values, (k - 1) * size + 1, Min(k * size, Len(values)))]

\* chunked(values, size): the k-th chunk yielded, values[idx : idx + size]
\* for idx = (k - 1) * size.
chunked(values, size) ==
    [k \in 1..NumChunks(values, size) |->
        SubSeq(values, (k - 1) * size + 1, Min(k * size, Len(values)))]

(***************************************************************************)
(* The inputs of the model.                                                *)
(***************************************************************************)
CtxAppView    == [file |-> "Alexis Farenheit/V.swift", line |-> 3, kind |-> "Text", target |-> "app"]

CtxAppCatalog == [file |-> "Alexis Farenheit/Localizable.xcstrings", line |-> 0,
                  kind |-> "xcstrings_key", target |-> "app"]

CtxWidgetView == [file |-> "AlexisExtensionFarenheit/W.swift", line |-> 7, kind |-> "Text",
                  target |-> "widget"]

\* "a%d": a format placeholder.
SrcPlaceholder == <<"a", "%", "d">>

\* "Ab": no structural token.
SrcPlain == <<"A", "b">>

\* "c°F": a unit symbol.
SrcUnit == <<"c", "°", "F">>

\* "D\(x)": an interpolation span.
SrcInterpolation == <<"D", "\\", "(", "x", ")">>

\* Candidates as build_candidates returns them, in case-insensitive order
\* of their sources.
CandidatePool ==
    <<[source |-> SrcPlaceholder,   contexts |-> <<CtxAppView>>],
      [source |-> SrcPlain,         contexts |-> <<CtxAppCatalog, CtxAppView>>],
      [source |-> SrcUnit,          contexts |-> <<CtxAppView, CtxWidgetView>>],
      [source |-> SrcInterpolation, contexts |-> <<CtxWidgetView>>]>>

\* The subsequence of seq at the indices of idxs, in increasing order.
RECURSIVE Pick(_, _, _)
Pick(seq, idxs, i) ==
    IF i > Len(seq) THEN <<>>
    ELSE (IF i \in idxs THEN <<seq[i]>> ELSE <<>>) \o Pick(seq, idxs, i + 1)

\* The candidate lists main() can hand to translate_candidates: every
\* source passed looks_translatable, sources are distinct and ordered.
CandidateLists ==
    {Pick(CandidatePool, idxs, 1) :
        idxs \in {I \in SUBSET (DOMAIN CandidatePool) :
                     /\ Cardinality(I) <= MaxCandidates
                     /\ \A i \in I : looks_translatable(CandidatePool[i].source)}}

\* A target with nothing but a letter: it drops every structural token.
TgtPlain == <<"z">>

\* A target that keeps the source's tail and changes its first character.
TgtKeeping(source) == <<"z">> \o Tail(source)

\* A target of white space only.
TgtBlank == <<" ">>

\* A target validation rejects: one that drops the source's structural
\* tokens, or a blank one for a source without tokens.
TgtRejected(source) ==
    LET tokens == extract_token_set(source)
    IN  IF tokens.placeholders = <<>> /\ tokens.interpolations = <<>> /\ tokens.units = <<>>
        THEN TgtBlank
        ELSE TgtPlain

\* What the service may answer for a requested source: the source itself,
\* a target that keeps its tokens, a target that validation rejects.
AnswersFor(source) == {source, TgtKeeping(source), TgtRejected(source)}

\* The dicts call_openai_batch may return for a request of `sources`:
\* any subset of the requested sources answered, and possibly one entry
\* for a string of `others` that was not requested.
ServiceResponses(sources, others) ==
    UNION {UNION {{[s \in D \cup E |-> IF s \in D THEN f[s] ELSE TgtPlain] :
                     f \in {g \in [D -> UNION {AnswersFor(x) : x \in D}] :
                               \A x \in D : g[x] \in AnswersFor(x)}}
                  : E \in {{}} \cup {{o} : o \in others}}
           : D \in SUBSET Range(sources)}

(***************************************************************************)
(* Ordered dicts (a Python dict whose key order is observable) as          *)
(* sequences of [key, value] records without repeated keys.                *)
(***************************************************************************)
Keys(od) == [i \in DOMAIN od |-> od[i].key]

HasKey(od, k) == \E i \in DOMAIN od : od[i].key = k

\* od[k] for a key that is present.
ValueAt(od, k) == od[CHOOSE i \in DOMAIN od : od[i].key = k].value

\* od[k] = v: an existing key keeps its place, a new key goes last.
SetItem(od, k, v) ==
    IF HasKey(od, k)
    THEN [i \in DOMAIN od |-> IF od[i].key = k THEN [key |-> k, value |-> v] ELSE od[i]]
    ELSE Append(od, [key |-> k, value |-> v])

\* key=lambda item: item[0].lower() compared with <=
LowerLeq(a, b) == ~StrLess(Lower(b), Lower(a))

\* Inserts item behind every element whose key is <= its own.
RECURSIVE InsertByLowerKey(_, _)
InsertByLowerKey(sorted, item) ==
    IF sorted = <<>> THEN <<item>>
    ELSE IF LowerLeq(sorted[1].key, item.key)
         THEN <<sorted[1]>> \o InsertByLowerKey(Tail(sorted), item)
         ELSE <<item>> \o sorted

\* sorted(od.items(), key=lambda item: item[0].lower()): Python's sort is
\* stable, so items with equal keys keep their order.
RECURSIVE SortByLowerKey(_)
SortByLowerKey(od) ==
    IF od = <<>> THEN <<>>
    ELSE InsertByLowerKey(SortByLowerKey(SubSeq(od, 1, Len(od) - 1)), od[Len(od)])

(***************************************************************************)
(* Catalog merge (i18n_workflow.py:646-720). A catalog file is Nothing     *)
(* when absent, else Some([sourceLanguage, strings, version]) with strings *)
(* an ordered dict from key to entry. An entry is [extractionState,        *)
(* localizations, isCommentAutoGenerated]: extractionState is None when    *)
(* absent, the flag FALSE when absent, localizations Nothing when absent   *)
(* and else Some(dict from language to [state, value]).                    *)
(***************************************************************************)
NewEntry == [extractionState |-> None, localizations |-> Nothing, isCommentAutoGenerated |-> FALSE]

TranslatedUnit(value) == [state |-> "translated", value |-> value]

\* A loop body that counts only the localizations it creates, not the ones
\* it changes.
MergeOne_CountingNewOnly(acc, language, source_key, localized_value) ==
    LET entry0 == IF HasKey(acc.strings, source_key)
                  THEN ValueAt(acc.strings, source_key) ELSE NewEntry
        state  == IF entry0.extractionState = None THEN "manual" ELSE entry0.extractionState
        locs   == IF entry0.localizations = Nothing THEN EmptyDict
                  ELSE entry0.localizations[1]
        entry1 == [entry0 EXCEPT !.extractionState = state,
                                 !.localizations = Some(Put(locs, language,
                                                            TranslatedUnit(localized_value)))]
    IN  [strings |-> SetItem(acc.strings, source_key, entry1),
         changed |-> IF language \notin DOMAIN locs THEN acc.changed + 1 ELSE acc.changed]

\* A loop body that counts every key it writes, changed or not.
MergeOne_CountingEveryKey(acc, language, source_key, localized_value) ==
    LET entry0 == IF HasKey(acc.strings, source_key)
                  THEN ValueAt(acc.strings, source_key) ELSE NewEntry
        state  == IF entry0.extractionState = None THEN "manual" ELSE entry0.extractionState
        locs   == IF entry0.localizations = Nothing THEN EmptyDict
                  ELSE entry0.localizations[1]
        entry1 == [entry0 EXCEPT !.extractionState = state,
                                 !.localizations = Some(Put(locs, language,
                                                            TranslatedUnit(localized_value)))]
    IN  [strings |-> SetItem(acc.strings, source_key, entry1),
         changed |-> acc.changed + 1]

\* A loop body that builds the entry afresh: a manual entry with the
\* localization of the language alone.
MergeOne_RebuildingEntry(acc, language, source_key, localized_value) ==
    LET entry0   == IF HasKey(acc.strings, source_key)
                    THEN ValueAt(acc.strings, source_key) ELSE NewEntry
        locs     == IF entry0.localizations = Nothing THEN EmptyDict
                    ELSE entry0.localizations[1]
        differs  == language \notin DOMAIN locs \/ locs[language].value # localized_value
        entry1   == [entry0 EXCEPT !.extractionState = "manual",
                                   !.localizations = Some(Put(EmptyDict, language,
                                                              TranslatedUnit(localized_value)))]
    IN  [strings |-> SetItem(acc.strings, source_key, entry1),
         changed |-> IF differs THEN acc.changed + 1 ELSE acc.changed]

\* The body of the loop of update_catalog for one (source_key,
\* localized_value) on `acc` = [strings, changed] (i18n_workflow.py:657-672).
MergeOne(acc, language, source_key, localized_value) ==
    LET entry0   == IF HasKey(acc.strings, source_key)
                    THEN ValueAt(acc.strings, source_key) ELSE NewEntry
        state    == IF entry0.extractionState = None THEN "manual" ELSE entry0.extractionState
        locs     == IF entry0.localizations = Nothing THEN EmptyDict
                    ELSE entry0.localizations[1]
        \* previous != localized_value, previous being None without a
        \* localization for the language
        differs  == language \notin DOMAIN locs \/ locs[language].value # localized_value
        entry1   == [entry0 EXCEPT !.extractionState = state,
                                   !.localizations = Some(Put(locs, language,
                                                              TranslatedUnit(localized_value)))]
    IN  [strings |-> SetItem(acc.strings, source_key, entry1),
         changed |-> IF differs THEN acc.changed + 1 ELSE acc.changed]

\* The loop of update_catalog over translations.items(), from index i.
RECURSIVE MergeAll(_, _, _, _)
MergeAll(acc, language, translations, i) ==
    IF i > Len(translations) THEN acc
    ELSE MergeAll(MergeOne(acc, language, translations[i].key, translations[i].value),
                  language, translations, i + 1)

\* An update_catalog that writes only the entries that have a localization.
update_catalog_DroppingUnlocalized(file, language, translations) ==
    LET strings0 == IF file = Nothing THEN <<>> ELSE file[1].strings
        merged   == MergeAll([strings |-> strings0, changed |-> 0], language, translations, 1)
    IN  [file    |-> Some([sourceLanguage |-> "en",
                           strings        |-> SortByLowerKey(
                                                 SelectSeq(merged.strings,
                                                           LAMBDA item :
                                                               item.value.localizations # Nothing)),
                           version        |-> "1.0"]),
         changed |-> merged.changed]

\* An update_catalog that writes the keys in the order of the dict.
update_catalog_InDictOrder(file, language, translations) ==
    LET strings0 == IF file = Nothing THEN <<>> ELSE file[1].strings
        merged   == MergeAll([strings |-> strings0, changed |-> 0], language, translations, 1)
    IN  [file    |-> Some([sourceLanguage |-> "en",
                           strings        |-> merged.strings,
                           version        |-> "1.0"]),
         changed |-> merged.changed]

\* update_catalog(catalog_path, language, translations): the file written
\* and the count returned.
update_catalog(file, language, translations) ==
    LET strings0 == IF file = Nothing THEN <<>> ELSE file[1].strings
        merged   == MergeAll([strings |-> strings0, changed |-> 0], language, translations, 1)
    IN  [file    |-> Some([sourceLanguage |-> "en",
                           strings        |-> SortByLowerKey(merged.strings),
                           version        |-> "1.0"]),
         changed |-> merged.changed]

\* A loop body that keys the entry on the source text and stores the
\* target text.
PairMergeOne_KeyedOnSource(strings, source_lang, target_text, source_text) ==
    LET entry0 == IF HasKey(strings, source_text) THEN ValueAt(strings, source_text)
                  ELSE NewEntry
        locs   == IF entry0.localizations = Nothing THEN EmptyDict
                  ELSE entry0.localizations[1]
        entry1 == [entry0 EXCEPT !.extractionState = "manual",
                                 !.localizations = Some(Put(locs, source_lang,
                                                            TranslatedUnit(target_text)))]
    IN  SetItem(strings, source_text, entry1)

\* The body of the loop of update_catalog of localize_with_openai.py for
\* one (target_text, source_text) pair (localize_with_openai.py:477-486).
PairMergeOne(strings, source_lang, target_text, source_text) ==
    LET entry0 == IF HasKey(strings, target_text) THEN ValueAt(strings, target_text)
                  ELSE NewEntry
        locs   == IF entry0.localizations = Nothing THEN EmptyDict
                  ELSE entry0.localizations[1]
        entry1 == [entry0 EXCEPT !.extractionState = "manual",
                                 !.localizations = Some(Put(locs, source_lang,
                                                            TranslatedUnit(source_text)))]
    IN  SetItem(strings, target_text, entry1)

\* The loop of that update_catalog over pairs, from index i.
RECURSIVE PairMergeAll(_, _, _, _)
PairMergeAll(strings, source_lang, pairs, i) ==
    IF i > Len(pairs) THEN strings
    ELSE PairMergeAll(PairMergeOne(strings, source_lang, pairs[i].target_text,
                                   pairs[i].source_text),
                      source_lang, pairs, i + 1)

\* update_catalog(catalog_path, source_lang, target_lang, pairs) of
\* localize_with_openai.py: the file written
\* (localize_with_openai.py:463-495).
localize_update_catalog(file, source_lang, target_lang, pairs) ==
    LET strings0 == IF file = Nothing THEN <<>> ELSE file[1].strings
    IN  Some([sourceLanguage |-> target_lang,
              strings        |-> SortByLowerKey(PairMergeAll(strings0, source_lang, pairs, 1)),
              version        |-> "1.0"])

\* app_pairs / widget_pairs of update_catalogs
\* (localize_with_openai.py:499-511): the (target_text, source_text) pairs
\* of the results with a context of `group`.
GroupPairs(results, group) ==
    LET taken == SelectSeq(results,
                           LAMBDA row : group \in {row.contexts[i].target :
                                                      i \in DOMAIN row.contexts})
    IN  [i \in DOMAIN taken |->
            [target_text |-> taken[i].target, source_text |-> taken[i].source]]

\* A sanitize pass that acts on every auto-flagged key.
IsRiskyKey_AnyFlagged(key, entry) == entry.isCommentAutoGenerated

\* The keys the sanitize pass acts on (i18n_workflow.py:698-701).
IsRiskyKey(key, entry) == StartsWith(key, <<"%">>) /\ entry.isCommentAutoGenerated

\* The entry after the sanitize pass (i18n_workflow.py:703-710).
SanitizeEntry(key, entry, language) ==
    IF ~IsRiskyKey(key, entry) THEN entry
    ELSE [entry EXCEPT
            !.extractionState = IF @ = "manual" THEN None ELSE @,
            !.localizations = IF @ # Nothing /\ language \in DOMAIN @[1]
                              THEN Some([l \in (DOMAIN @[1]) \ {language} |-> @[1][l]])
                              ELSE @]

\* The number of removals the sanitize pass counts for one entry.
SanitizeCount(key, entry, language) ==
    IF ~IsRiskyKey(key, entry) THEN 0
    ELSE (IF entry.extractionState = "manual" THEN 1 ELSE 0)
         + (IF entry.localizations # Nothing /\ language \in DOMAIN entry.localizations[1]
            THEN 1 ELSE 0)

RECURSIVE SumSeq(_)
SumSeq(seq) == IF seq = <<>> THEN 0 ELSE seq[1] + SumSeq(Tail(seq))

\* sanitize_catalog_for_symbols(catalog_path, language): the file left and
\* the count returned; the file is rewritten only when something changed.
sanitize_catalog_for_symbols(file, language) ==
    IF file = Nothing THEN [file |-> Nothing, changed |-> 0]
    ELSE LET old     == file[1].strings
             strings == [i \in DOMAIN old |->
                            [key   |-> old[i].key,
                             value |-> SanitizeEntry(old[i].key, old[i].value, language)]]
             changed == SumSeq([i \in DOMAIN old |->
                                   SanitizeCount(old[i].key, old[i].value, language)])
         IN  [file    |-> IF changed > 0
                          THEN Some([sourceLanguage |-> file[1].sourceLanguage,
                                     strings        |-> SortByLowerKey(strings),
                                     version        |-> file[1].version])
                          ELSE file,
              changed |-> changed]

(***************************************************************************)
(* Region registration and the localized permission file                   *)
(* (i18n_workflow.py:144-145, 526-643, 723-738). A line of the             *)
(* knownRegions block is [region, canonical]: the token normalize_region   *)
(* yields ("" for a line without one) and whether the raw line is exactly  *)
(* the line the script writes for that region (four tabs, format_region,   *)
(* comma).                                                                 *)
(***************************************************************************)
\* The regions of seq without repetition, first occurrences kept
\* (i18n_workflow.py:557-563).
RECURSIVE Dedup(_, _)
Dedup(seq, seen) ==
    IF seq = <<>> THEN <<>>
    ELSE IF seq[1] \in seen THEN Dedup(Tail(seq), seen)
    ELSE <<seq[1]>> \o Dedup(Tail(seq), seen \cup {seq[1]})

\* get_known_regions(project_root), also the first half of
\* ensure_known_region (i18n_workflow.py:554-563).
get_known_regions(block) ==
    Dedup(SelectSeq([i \in DOMAIN block |-> block[i].region], LAMBDA r : r # ""), {})

\* An ensure_known_region that appends the language at the end of the
\* list and leaves "Base" where it is.
ensure_known_region_AppendingLast(block, language) ==
    LET unique    == get_known_regions(block)
        inserted  == IF language \in Range(unique) THEN unique
                     ELSE Append(unique, language)
        new_block == [i \in DOMAIN inserted |-> [region |-> inserted[i], canonical |-> TRUE]]
        changed   == block # new_block
    IN  [block |-> IF changed THEN new_block ELSE block, changed |-> changed]

\* An ensure_known_region that writes the block and reports a change
\* whatever the block read.
ensure_known_region_AlwaysRewriting(block, language) ==
    LET unique    == get_known_regions(block)
        base_idx  == CHOOSE i \in DOMAIN unique : unique[i] = "Base"
        inserted  == IF language \in Range(unique) THEN unique
                     ELSE IF "Base" \in Range(unique)
                     THEN SubSeq(unique, 1, base_idx - 1) \o <<language>>
                              \o SubSeq(unique, base_idx, Len(unique))
                     ELSE Append(unique, language)
        base_last == IF "Base" \in Range(inserted)
                     THEN SelectSeq(inserted, LAMBDA r : r # "Base") \o <<"Base">>
                     ELSE inserted
        new_block == [i \in DOMAIN base_last |-> [region |-> base_last[i], canonical |-> TRUE]]
    IN  [block |-> new_block, changed |-> TRUE]

\* ensure_known_region(project_root, language): the block left in the
\* manifest and the flag returned.
ensure_known_region(block, language) ==
    LET unique    == get_known_regions(block)
        base_idx  == CHOOSE i \in DOMAIN unique : unique[i] = "Base"
        inserted  == IF language \in Range(unique) THEN unique
                     ELSE IF "Base" \in Range(unique)
                     THEN SubSeq(unique, 1, base_idx - 1) \o <<language>>
                              \o SubSeq(unique, base_idx, Len(unique))
                     ELSE Append(unique, language)
        base_last == IF "Base" \in Range(inserted)
                     THEN SelectSeq(inserted, LAMBDA r : r # "Base") \o <<"Base">>
                     ELSE inserted
        new_block == [i \in DOMAIN base_last |-> [region |-> base_last[i], canonical |-> TRUE]]
        changed   == block # new_block
    IN  [block |-> IF changed THEN new_block ELSE block, changed |-> changed]

\* sync_info_plist_localizations for one Info.plist: its
\* CFBundleLocalizations (Nothing when the key is absent) afterwards.
SyncedLocalizations(current, regions) ==
    LET localizations == SelectSeq(regions, LAMBDA r : r # "Base")
    IN  IF current = Some(localizations) THEN current ELSE Some(localizations)

\* escape_string_literal(text)
RECURSIVE escape_string_literal(_)
escape_string_literal(text) ==
    IF text = <<>> THEN <<>>
    ELSE (IF text[1] \in {"\\", "\""} THEN <<"\\", text[1]>> ELSE <<text[1]>>)
             \o escape_string_literal(Tail(text))

\* The two required permission-description keys (i18n_workflow.py:729-732).
RequiredPlistKeys ==
    <<"NSLocationAlwaysAndWhenInUseUsageDescription", "NSLocationWhenInUseUsageDescription">>

\* write_info_plist_strings: the lines of InfoPlist.strings.
write_info_plist_strings(translated_by_source, by_key) ==
    [i \in DOMAIN RequiredPlistKeys |->
        LET source_value == by_key[RequiredPlistKeys[i]]
        IN  [key   |-> RequiredPlistKeys[i],
             value |-> escape_string_literal(Get(translated_by_source, source_value,
                                                 source_value))]]

\* The shared files of the project, as paths below project_root
\* (i18n_workflow.py:311-313, 365).
AppCatalogPath == "Alexis Farenheit/Localizable.xcstrings"

WidgetCatalogPath == "AlexisExtensionFarenheit/Localizable.xcstrings"

PbxPath == "Alexis Farenheit.xcodeproj/project.pbxproj"

\* {ctx.target for ctx in row.contexts}
TargetsOfRow(row) == {row.contexts[i].target : i \in DOMAIN row.contexts}

\* A map that takes every row, whatever the target groups of its contexts.
RECURSIVE GroupMap_EveryRow(_, _, _)
GroupMap_EveryRow(result_rows, group, i) ==
    IF i = 0 THEN <<>>
    ELSE SetItem(GroupMap_EveryRow(result_rows, group, i - 1),
                 result_rows[i].source, result_rows[i].target)

\* A map that leaves out the rows that fell back to their source text.
RECURSIVE GroupMap_TranslatedOnly(_, _, _)
GroupMap_TranslatedOnly(result_rows, group, i) ==
    IF i = 0 THEN <<>>
    ELSE LET before == GroupMap_TranslatedOnly(result_rows, group, i - 1)
         IN  IF group \in TargetsOfRow(result_rows[i]) /\ result_rows[i].status # "fallback"
             THEN SetItem(before, result_rows[i].source, result_rows[i].target)
             ELSE before

\* app_map / widget_map of apply_translations (i18n_workflow.py:748-758):
\* the ordered dict source -> target of the rows with a context of `group`.
RECURSIVE GroupMap(_, _, _)
GroupMap(result_rows, group, i) ==
    IF i = 0 THEN <<>>
    ELSE LET before == GroupMap(result_rows, group, i - 1)
         IN  IF group \in TargetsOfRow(result_rows[i])
             THEN SetItem(before, result_rows[i].source, result_rows[i].target)
             ELSE before

\* translated_by_source of apply_translations (i18n_workflow.py:750-753).
TranslatedBySource(result_rows) ==
    [s \in {result_rows[i].source : i \in DOMAIN result_rows} |->
        result_rows[CHOOSE i \in DOMAIN result_rows :
                        /\ result_rows[i].source = s
                        /\ \A j \in DOMAIN result_rows :
                               result_rows[j].source = s => j <= i].target]

\* apply_translations(project_root, language, rows, plist_by_key): the
\* files left and the counters returned (i18n_workflow.py:747-771).
apply_translations(app_file, widget_file, language, result_rows, by_key) ==
    LET app_update    == update_catalog(app_file, language,
                                        GroupMap(result_rows, "app", Len(result_rows)))
        widget_update == update_catalog(widget_file, language,
                                        GroupMap(result_rows, "widget", Len(result_rows)))
        app_clean     == sanitize_catalog_for_symbols(app_update.file, language)
        widget_clean  == sanitize_catalog_for_symbols(widget_update.file, language)
    IN  [app     |-> app_clean.file,
         widget  |-> widget_clean.file,
         strings |-> write_info_plist_strings(TranslatedBySource(result_rows), by_key),
         \* update_catalog reads the file when it exists and writes it;
         \* the sanitize pass reads it and writes it when it changed a key
         reads   |-> [f \in {AppCatalogPath, WidgetCatalogPath, PbxPath} |->
                         IF f = AppCatalogPath
                         THEN (IF app_file # Nothing THEN 1 ELSE 0) + 1
                         ELSE IF f = WidgetCatalogPath
                         THEN (IF widget_file # Nothing THEN 1 ELSE 0) + 1
                         ELSE 0],
         writes  |-> [f \in {AppCatalogPath, WidgetCatalogPath, PbxPath} |->
                         IF f = AppCatalogPath
                         THEN 1 + (IF app_clean.changed > 0 THEN 1 ELSE 0)
                         ELSE IF f = WidgetCatalogPath
                         THEN 1 + (IF widget_clean.changed > 0 THEN 1 ELSE 0)
                         ELSE 0],
         counters |-> [appCatalogEntriesUpdated    |-> app_update.changed,
                       widgetCatalogEntriesUpdated |-> widget_update.changed,
                       appSanitizedKeys            |-> app_clean.changed,
                       widgetSanitizedKeys         |-> widget_clean.changed]]

(***************************************************************************)
(* The projects the run starts from.                                       *)
(***************************************************************************)
\* --language of the run, after normalize_language_code.
TargetLanguage == "es"

\* The values of the two permission descriptions in project.pbxproj.
PlistByKey ==
    [k \in Range(RequiredPlistKeys) |->
        IF k = RequiredPlistKeys[1] THEN SrcPlain ELSE <<"G", "o", "\"">>]

Unit(value) == [state |-> "translated", value |-> value]

\* A project never localized: no catalog, no CFBundleLocalizations.
FreshProject ==
    [appCatalog    |-> Nothing,
     widgetCatalog |-> Nothing,
     knownRegions  |-> <<[region |-> "en", canonical |-> TRUE],
                         [region |-> "Base", canonical |-> TRUE]>>,
     appInfoPlist    |-> Nothing,
     widgetInfoPlist |-> Nothing,
     infoPlistStrings |-> Nothing]

\* A project already localized: catalogs written by Xcode (keys in file
\* order), an auto-generated format key, the language already registered.
LocalizedProject ==
    [appCatalog |->
        Some([sourceLanguage |-> "en", version |-> "1.0",
              strings |->
                <<[key |-> <<"b">>,
                   value |-> [extractionState |-> None, isCommentAutoGenerated |-> FALSE,
                              localizations |-> Some([l \in {"fr"} |-> Unit(<<"y">>)])]],
                  [key |-> SrcPlain,
                   value |-> [extractionState |-> "stale", isCommentAutoGenerated |-> FALSE,
                              localizations |->
                                Some([l \in {"es", "fr"} |->
                                        IF l = "es" THEN Unit(TgtKeeping(SrcPlain))
                                        ELSE Unit(<<"y">>)])]],
                  [key |-> <<"%", "d">>,
                   value |-> [extractionState |-> "manual", isCommentAutoGenerated |-> TRUE,
                              localizations |-> Some([l \in {"es"} |-> Unit(<<"%", "d">>)])]]>>]),
     widgetCatalog |->
        Some([sourceLanguage |-> "en", version |-> "1.0",
              strings |->
                <<[key |-> SrcUnit,
                   value |-> [extractionState |-> "manual", isCommentAutoGenerated |-> FALSE,
                              localizations |-> Nothing]]>>]),
     knownRegions  |-> <<[region |-> "en", canonical |-> TRUE],
                         [region |-> "Base", canonical |-> TRUE],
                         [region |-> "es", canonical |-> TRUE]>>,
     appInfoPlist    |-> Some(<<"en", "es">>),
     widgetInfoPlist |-> Some(<<"en">>),
     infoPlistStrings |-> Nothing]

Projects == {FreshProject, LocalizedProject}

(***************************************************************************)
(* The aggregators (i18n_workflow.py:309-415, localize_with_openai.py:     *)
(* 134-173). A scan is [app, widget, pbx]: the Swift files of each target  *)
(* group in the order rglob yields them, each [path, literals] with the    *)
(* literals the USER_FACING_PATTERNS matched as [line, kind, literal] in   *)
(* line order, and the lines of project.pbxproj the permission pattern     *)
(* matched as [line, key, value].                                          *)
(***************************************************************************)
\* The paths, kinds and target groups of the model in Python's str order.
PathsInOrder ==
    <<PbxPath, AppCatalogPath, "Alexis Farenheit/U.swift", "Alexis Farenheit/V.swift",
      WidgetCatalogPath, "AlexisExtensionFarenheit/W.swift",
      "AlexisExtensionFarenheit/X.swift">>

KindsInOrder == <<"Button", "InfoPlistUsageDescription", "Text", "xcstrings_key">>

TargetsInOrder == <<"app", "widget">>

\* key=lambda c: (c.file, c.line, c.kind, c.target)
ContextKey(c) ==
    <<IndexOf(PathsInOrder, c.file), c.line, IndexOf(KindsInOrder, c.kind),
      IndexOf(TargetsInOrder, c.target)>>

\* Python's tuple comparison a < b on tuples of equal length.
RECURSIVE TupleLess(_, _)
TupleLess(a, b) ==
    IF a = <<>> THEN FALSE
    ELSE IF a[1] # b[1] THEN a[1] < b[1]
    ELSE TupleLess(Tail(a), Tail(b))

\* sorted(S, key=ContextKey) for a set S of contexts (the key is
\* one-to-one, so the order in which the set is iterated does not matter).
RECURSIVE SortedContextSet(_)
SortedContextSet(S) ==
    IF S = {} THEN <<>>
    ELSE LET first == CHOOSE x \in S :
                         \A y \in S \ {x} : TupleLess(ContextKey(x), ContextKey(y))
         IN  <<first>> \o SortedContextSet(S \ {first})

\* collect_catalog_keys(project_root, target) for the catalog file of the
\* target at `path`.
collect_catalog_keys(file, path, target) ==
    IF file = Nothing THEN <<>>
    ELSE LET keys == SelectSeq(Keys(file[1].strings), looks_translatable)
         IN  [i \in DOMAIN keys |->
                 [source |-> keys[i],
                  ctx    |-> [file |-> path, line |-> 0, kind |-> "xcstrings_key",
                              target |-> target]]]

\* The (literal, Context) pairs of the pattern matches of one Swift file,
\* in line order.
FileFindings(swift_file, target) ==
    [i \in DOMAIN swift_file.literals |->
        [source |-> swift_file.literals[i].literal,
         ctx    |-> [file |-> swift_file.path, line |-> swift_file.literals[i].line,
                     kind |-> swift_file.literals[i].kind, target |-> target]]]

\* collect_code_keys(project_root, target) over the files of the target.
collect_code_keys(files, target) ==
    Concat([i \in DOMAIN files |->
               SelectSeq(FileFindings(files[i], target),
                         LAMBDA found : looks_translatable(found.source))])

\* A collect_plist_keys that raises only when no required key is found.
collect_plist_keys_RaisingWhenNoneFound(pbx) ==
    LET present == {pbx[i].key : i \in DOMAIN pbx}
        kept    == SelectSeq(pbx, LAMBDA l : looks_translatable(l.value))
    IN  [out     |-> [i \in DOMAIN kept |->
                         [source |-> kept[i].value,
                          ctx    |-> [file |-> PbxPath, line |-> kept[i].line,
                                      kind |-> "InfoPlistUsageDescription",
                                      target |-> "app"]]],
         by_key  |-> [k \in present |->
                         pbx[CHOOSE i \in DOMAIN pbx :
                                /\ pbx[i].key = k
                                /\ \A j \in 1..(i - 1) : pbx[j].key # k].value],
         missing |-> SelectSeq(RequiredPlistKeys, LAMBDA k : k \notin present),
         raises  |-> present = {}]

\* collect_plist_keys(project_root): the pairs found, by_key (the first
\* value of each key) and the required keys that are missing, in sorted
\* order; it raises RuntimeError when a key is missing.
collect_plist_keys(pbx) ==
    LET present == {pbx[i].key : i \in DOMAIN pbx}
        kept    == SelectSeq(pbx, LAMBDA l : looks_translatable(l.value))
    IN  [out     |-> [i \in DOMAIN kept |->
                         [source |-> kept[i].value,
                          ctx    |-> [file |-> PbxPath, line |-> kept[i].line,
                                      kind |-> "InfoPlistUsageDescription",
                                      target |-> "app"]]],
         by_key  |-> [k \in present |->
                         pbx[CHOOSE i \in DOMAIN pbx :
                                /\ pbx[i].key = k
                                /\ \A j \in 1..(i - 1) : pbx[j].key # k].value],
         missing |-> SelectSeq(RequiredPlistKeys, LAMBDA k : k \notin present),
         raises  |-> present # Range(RequiredPlistKeys)]

\* grouped[source].append(ctx) for the pairs of findings up to index i.
RECURSIVE Grouped(_, _)
Grouped(findings, i) ==
    IF i = 0 THEN <<>>
    ELSE LET before == Grouped(findings, i - 1)
             source == findings[i].source
             sofar  == IF HasKey(before, source) THEN ValueAt(before, source) ELSE <<>>
         IN  SetItem(before, source, Append(sofar, findings[i].ctx))

\* The pairs build_candidates collects, in the order it collects them.
BuildFindings(app_file, widget_file, the_scan, include_targets) ==
    Concat([t \in DOMAIN include_targets |->
               IF include_targets[t] = "app"
               THEN collect_catalog_keys(app_file, AppCatalogPath, "app")
                        \o collect_code_keys(the_scan.app, "app")
               ELSE collect_catalog_keys(widget_file, WidgetCatalogPath, "widget")
                        \o collect_code_keys(the_scan.widget, "widget")])
        \o collect_plist_keys(the_scan.pbx).out

\* A build_candidates that keeps every context appended, repeated or not.
build_candidates_KeepingRepeats(app_file, widget_file, the_scan, include_targets) ==
    LET findings == BuildFindings(app_file, widget_file, the_scan, include_targets)
        plist    == collect_plist_keys(the_scan.pbx)
        sorted   == SortByLowerKey(Grouped(findings, Len(findings)))
    IN  [raises       |-> plist.raises,
         missing      |-> plist.missing,
         plist_by_key |-> plist.by_key,
         result       |-> [i \in DOMAIN sorted |->
                              [source |-> sorted[i].key, contexts |-> sorted[i].value]]]

\* build_candidates(project_root, include_targets): the Candidates and
\* plist_by_key, or the RuntimeError of collect_plist_keys.
build_candidates(app_file, widget_file, the_scan, include_targets) ==
    LET findings == BuildFindings(app_file, widget_file, the_scan, include_targets)
        plist    == collect_plist_keys(the_scan.pbx)
        sorted   == SortByLowerKey(Grouped(findings, Len(findings)))
    IN  [raises       |-> plist.raises,
         missing      |-> plist.missing,
         plist_by_key |-> plist.by_key,
         result       |-> [i \in DOMAIN sorted |->
                              [source   |-> sorted[i].key,
                               contexts |-> SortedContextSet(Range(sorted[i].value))]]]

\* The members of SPANISH_KEYWORDS that fit the model's alphabet
\* (localize_with_openai.py:31-58).
SPANISH_KEYWORDS == {<<"l","u","g","a","r">>, <<"b","u","s","c","a">>}

\* is_spanish_like(text) (localize_with_openai.py:111-115).
is_spanish_like(text) ==
    \/ \E i \in DOMAIN text : Lower(text)[i] \in {"á", "é", "í", "ó", "ú", "ñ", "¿", "¡"}
    \/ \E token \in SPANISH_KEYWORDS : Contains(Lower(text), token)

\* should_include_for_source_lang(text, source_lang)
\* (localize_with_openai.py:118-121).
should_include_for_source_lang(text, source_lang) ==
    IF source_lang \in {"es", "ES", "Es", "eS"} THEN is_spanish_like(text) ELSE TRUE

\* add(...) of extract_candidates keeps the literal
\* (localize_with_openai.py:137-143).
Added(text, source_lang) ==
    ~IsBlank(text) /\ should_include_for_source_lang(text, source_lang)

\* The pairs extract_candidates adds to its buckets, in the order it adds
\* them (localize_with_openai.py:145-171).
ExtractFindings(the_scan, include_targets, source_lang) ==
    LET keep(text) == Added(text, source_lang)
        lines      == SelectSeq(the_scan.pbx, LAMBDA l : keep(l.value))
    IN  (IF "app" \in Range(include_targets)
         THEN Concat([i \in DOMAIN the_scan.app |->
                         SelectSeq(FileFindings(the_scan.app[i], "app"),
                                   LAMBDA found : keep(found.source))])
                \o [i \in DOMAIN lines |->
                       [source |-> lines[i].value,
                        ctx    |-> [file |-> PbxPath, line |-> lines[i].line,
                                    kind |-> "InfoPlistUsageDescription",
                                    target |-> "app"]]]
         ELSE <<>>)
        \o (IF "widget" \in Range(include_targets)
            THEN Concat([i \in DOMAIN the_scan.widget |->
                            SelectSeq(FileFindings(the_scan.widget[i], "widget"),
                                       LAMBDA found : keep(found.source))])
            ELSE <<>>)

\* Inserts item behind every element whose key is <= its own, keys
\* compared as Python compares str.
RECURSIVE InsertByKey(_, _)
InsertByKey(sorted, item) ==
    IF sorted = <<>> THEN <<item>>
    ELSE IF ~StrLess(item.key, sorted[1].key)
         THEN <<sorted[1]>> \o InsertByKey(Tail(sorted), item)
         ELSE <<item>> \o sorted

\* sorted(buckets.items()): the keys are distinct, so the tuples compare by
\* their keys.
RECURSIVE SortByKey(_)
SortByKey(od) ==
    IF od = <<>> THEN <<>>
    ELSE InsertByKey(SortByKey(SubSeq(od, 1, Len(od) - 1)), od[Len(od)])

\* extract_candidates(project_root, include_targets, source_lang)
\* (localize_with_openai.py:134-173).
extract_candidates(the_scan, include_targets, source_lang) ==
    LET findings == ExtractFindings(the_scan, include_targets, source_lang)
        sorted   == SortByKey(Grouped(findings, Len(findings)))
    IN  [i \in DOMAIN sorted |-> [source |-> sorted[i].key, contexts |-> sorted[i].value]]

\* The Swift files and manifest lines the scans of the model find.
FileV ==
    [path |-> "Alexis Farenheit/V.swift",
     literals |-> <<[line |-> 3, kind |-> "Text",   literal |-> SrcPlain],
                    [line |-> 5, kind |-> "Button", literal |-> SrcUnit],
                    [line |-> 8, kind |-> "Text",   literal |-> <<"%", "d">>]>>]

FileU ==
    [path |-> "Alexis Farenheit/U.swift",
     literals |-> <<[line |-> 2, kind |-> "Text", literal |-> <<"a", "b">>],
                    [line |-> 4, kind |-> "Text", literal |-> <<"B">>],
                    [line |-> 6, kind |-> "Text", literal |-> <<"l","u","g","a","r">>]>>]

FileW ==
    [path |-> "AlexisExtensionFarenheit/W.swift",
     literals |-> <<[line |-> 7,  kind |-> "Text", literal |-> SrcUnit],
                    [line |-> 9,  kind |-> "Text", literal |-> SrcInterpolation],
                    [line |-> 11, kind |-> "Text", literal |-> <<" ">>]>>]

\* A widget file of literals the pre-filter is about: a format specifier
\* followed by words, a symbol name, an interpolation followed by a
\* letter, digits and a degree sign, a plain text.
FileX ==
    [path |-> "AlexisExtensionFarenheit/X.swift",
     literals |-> <<[line |-> 1, kind |-> "Text", literal |-> <<"%", "d", " ", "a", "b">>],
                    [line |-> 2, kind |-> "Text", literal |-> <<"g","e","a","r">>],
                    [line |-> 3, kind |-> "Text", literal |-> <<"\\", "(", "x", ")", "b">>],
                    [line |-> 4, kind |-> "Text", literal |-> <<"1", "°">>],
                    [line |-> 5, kind |-> "Text", literal |-> SrcPlain]>>]

PbxLines ==
    <<[line |-> 40, key |-> RequiredPlistKeys[1], value |-> PlistByKey[RequiredPlistKeys[1]]],
      [line |-> 41, key |-> RequiredPlistKeys[2], value |-> PlistByKey[RequiredPlistKeys[2]]]>>

\* The scans: the app files in either order rglob may yield them, no
\* widget file, one or two, any of the manifest lines.
Scans ==
    {[app |-> a, widget |-> w, pbx |-> Pick(PbxLines, ls, 1)] :
        a \in {<<>>, <<FileV>>, <<FileU>>, <<FileV, FileU>>, <<FileU, FileV>>},
        w \in {<<>>, <<FileW>>, <<FileW, FileX>>},
        ls \in SUBSET (DOMAIN PbxLines)}

\* The command line of a run that translates and merges: both target
\* groups, no --dry-run, OPENAI_API_KEY set (i18n_workflow.py:111-131, 826).
ApplyArgs ==
    [include_targets |-> <<"app", "widget">>, source_language |-> "en",
     dry_run |-> FALSE, api_key |-> TRUE]

\* A scan that found no Swift file and no manifest line.
NoScan == [app |-> <<>>, widget |-> <<>>, pbx |-> <<>>]

(***************************************************************************)
(* State.                                                                  *)
(***************************************************************************)
VARIABLES
    pc,             \* where main() stands
    candidates,     \* the Candidates build_candidates returned
    batchIdx,       \* translate_candidates: number of the batch in hand
    attempt,        \* translate_candidates: loop variable of the retry loop
    pending,        \* translate_candidates: sources of the next request
    feedback,       \* translate_candidates: Nothing or Some(issues of the last attempt)
    final_targets,  \* translate_candidates: dict source -> target
    validations,    \* translate_candidates: dict source -> validation
    rows,           \* the TranslationRows translate_candidates returned
    request,        \* Nothing or Some(the last request sent to the service)
    translated,     \* Nothing or Some(the dict the last call_openai_batch returned)
    parsed,         \* Nothing or Some(the rows of the last response: parsed["translations"])
    requestCount,   \* history: requests sent, per batch number
    sentCount,      \* history: requests that carried a source, per source
    identityCount,  \* history: attempts whose response had target = source, per source
    failCount,      \* history: attempts at which a source failed validation, per source
    transportErrors,   \* history: calls of call_openai_batch that raised
    plist_by_key,   \* the permission descriptions build_candidates returned
    appCatalog,     \* file "Alexis Farenheit/Localizable.xcstrings"
    widgetCatalog,  \* file "AlexisExtensionFarenheit/Localizable.xcstrings"
    knownRegions,   \* the knownRegions block of project.pbxproj
    appInfoPlist,   \* CFBundleLocalizations of Alexis-Farenheit-Info.plist
    widgetInfoPlist,   \* CFBundleLocalizations of AlexisExtensionFarenheit/Info.plist
    infoPlistStrings,  \* file "<language>.lproj/InfoPlist.strings"
    resultsArtifact,   \* file localization/<language>/translation_results.json
    args,           \* main(): the command line and the environment of the run
    scan,           \* the Swift files and the manifest lines, as the scan enumerates them
    exit,           \* Nothing or Some([code, error]): how main() returned
    artifactDir,    \* whether directory localization/<language> exists
    candidatesArtifact,  \* file localization/<language>/translation_candidates.json
    checkedSource,  \* validate_translation: the source passed
    checkedTarget,  \* validate_translation: the target passed
    verdict,        \* Nothing or Some(what validate_translation returned)
    translations,   \* update_catalog: the dict source_key -> localized_value passed
    changed,        \* Nothing or Some(the count update_catalog or the sanitize pass returned)
    reads,          \* the merge steps: how often each shared file was read
    writes          \* the merge steps: how often each shared file was written

vars == <<pc, candidates, batchIdx, attempt, pending, feedback, final_targets,
          validations, rows, request, translated, parsed, requestCount, sentCount,
          identityCount, failCount, transportErrors, plist_by_key, appCatalog, widgetCatalog,
          knownRegions, appInfoPlist, widgetInfoPlist, infoPlistStrings, resultsArtifact,
          args, scan, exit, artifactDir, candidatesArtifact, checkedSource, checkedTarget,
          verdict, translations, changed, reads, writes>>

\* What main() reads and writes before it calls translate_candidates.
startupVars == <<args, scan, exit, artifactDir, candidatesArtifact>>

\* The arguments and the result of one call of validate_translation.
validatorVars == <<checkedSource, checkedTarget, verdict>>

\* The argument and the result of one call of update_catalog or of
\* sanitize_catalog_for_symbols.
catalogVars == <<translations, changed>>

\* The reads and writes of the shared files by the merge steps
\* (i18n_workflow.py:842-845).
ioVars == <<reads, writes>>

\* The shared files of the merge steps: the two catalogs and the manifest.
SharedFiles == {AppCatalogPath, WidgetCatalogPath, PbxPath}

\* No shared file was read or written yet.
NoIO == [f \in SharedFiles |-> 0]

orchestratorVars == <<batchIdx, attempt, pending, feedback, final_targets, validations>>

historyVars == <<request, translated, parsed, requestCount, sentCount, identityCount, failCount,
                 transportErrors>>

\* The project files the merge step writes.
projectVars == <<appCatalog, widgetCatalog, knownRegions, appInfoPlist, widgetInfoPlist,
                 infoPlistStrings>>

\* ordered_sources = [c.source for c in candidates]
ordered_sources == [i \in DOMAIN candidates |-> candidates[i].source]

\* The batches of the run: chunked(ordered_sources, BATCH_SIZE).
Batches == chunked(ordered_sources, BATCH_SIZE)

\* Rows whose status follows the validation instead of the target.
BuildRows_StatusByValidation(cands, targets, vals) ==
    [i \in DOMAIN cands |->
        [source     |-> cands[i].source,
         target     |-> Get(targets, cands[i].source, cands[i].source),
         status     |-> IF Get(vals, cands[i].source, "") = "ok"
                        THEN "translated" ELSE "fallback",
         validation |-> Get(vals, cands[i].source, "fallback_missing_translation"),
         contexts   |-> cands[i].contexts]]

\* Rows built only for the sources finalized with validation "ok".
BuildRows_OkOnly(cands, targets, vals) ==
    LET kept == SelectSeq(cands, LAMBDA c : Get(vals, c.source, "") = "ok")
    IN  [i \in DOMAIN kept |->
            [source     |-> kept[i].source,
             target     |-> Get(targets, kept[i].source, kept[i].source),
             status     |-> IF Get(targets, kept[i].source, kept[i].source) # kept[i].source
                            THEN "translated" ELSE "fallback",
             validation |-> "ok",
             contexts   |-> kept[i].contexts]]

\* Rows whose status is read off the validation instead of the target.
BuildRows_StatusFromValidation(cands, targets, vals) ==
    [i \in DOMAIN cands |->
        [source     |-> cands[i].source,
         target     |-> Get(targets, cands[i].source, cands[i].source),
         status     |-> IF Get(vals, cands[i].source, "") = "ok"
                        THEN "translated" ELSE "fallback",
         validation |-> Get(vals, cands[i].source, "fallback_missing_translation"),
         contexts   |-> cands[i].contexts]]

\* i18n_workflow.py:487-501: one TranslationRow per Candidate.
BuildRows(cands, targets, vals) ==
    [i \in DOMAIN cands |->
        LET target == Get(targets, cands[i].source, cands[i].source)
        IN  [source     |-> cands[i].source,
             target     |-> target,
             status     |-> IF target # cands[i].source THEN "translated" ELSE "fallback",
             validation |-> Get(vals, cands[i].source, "fallback_missing_translation"),
             contexts   |-> cands[i].contexts]]

Init ==
    /\ candidates \in CandidateLists
    /\ pc = "translate"
    /\ batchIdx = 0
    /\ attempt = 0
    /\ pending = <<>>
    /\ feedback = Nothing
    /\ final_targets = EmptyDict
    /\ validations = EmptyDict
    /\ rows = <<>>
    /\ request = Nothing
    /\ translated = Nothing
    /\ parsed = Nothing
    /\ requestCount = [b \in 1..NumChunks(ordered_sources, BATCH_SIZE) |-> 0]
    /\ sentCount = [s \in Range(ordered_sources) |-> 0]
    /\ identityCount = [s \in Range(ordered_sources) |-> 0]
    /\ failCount = [s \in Range(ordered_sources) |-> 0]
    /\ transportErrors = 0
    /\ plist_by_key = PlistByKey
    /\ \E project \in Projects :
          /\ appCatalog = project.appCatalog
          /\ widgetCatalog = project.widgetCatalog
          /\ knownRegions = project.knownRegions
          /\ appInfoPlist = project.appInfoPlist
          /\ widgetInfoPlist = project.widgetInfoPlist
          /\ infoPlistStrings = project.infoPlistStrings
    /\ resultsArtifact = Nothing
    /\ args = ApplyArgs
    /\ scan = NoScan
    /\ exit = Nothing
    /\ artifactDir = TRUE
    /\ candidatesArtifact = Some(candidates)
    /\ checkedSource = <<>>
    /\ checkedTarget = <<>>
    /\ verdict = Nothing
    /\ translations = <<>>
    /\ changed = Nothing
    /\ reads = NoIO
    /\ writes = NoIO

\* main() calls translate_candidates (i18n_workflow.py:831, 440-446): the
\* dicts are created and the first batch, if any, becomes pending.
EnterTranslate ==
    /\ pc = "translate"
    /\ final_targets' = EmptyDict
    /\ validations' = EmptyDict
    /\ attempt' = 0
    /\ feedback' = Nothing
    /\ IF Len(Batches) = 0
       THEN /\ pc' = "translated"
            /\ rows' = BuildRows(candidates, EmptyDict, EmptyDict)
            /\ UNCHANGED <<batchIdx, pending>>
       ELSE /\ pc' = "call"
            /\ batchIdx' = 1
            /\ pending' = Batches[1]
            /\ rows' = rows
    /\ UNCHANGED <<startupVars, validatorVars, catalogVars, ioVars, candidates, historyVars, plist_by_key, projectVars, resultsArtifact>>

\* call_openai_batch is entered with the pending sources and the feedback
\* (i18n_workflow.py:452-459, 250-261): the request leaves. The rows of
\* the previous call went with its frame.
IssueRequest ==
    /\ pc = "call"
    /\ pending # <<>>
    /\ request' = Some([batch |-> batchIdx, attempt |-> attempt,
                        sources |-> pending, feedback |-> feedback])
    /\ requestCount' = [requestCount EXCEPT ![batchIdx] = @ + 1]
    /\ sentCount' = [s \in DOMAIN sentCount |->
                        IF s \in Range(pending) THEN sentCount[s] + 1 ELSE sentCount[s]]
    /\ parsed' = Nothing
    /\ pc' = "awaiting"
    /\ UNCHANGED <<startupVars, validatorVars, catalogVars, ioVars, candidates, orchestratorVars, rows, translated, identityCount, failCount,
                   transportErrors, plist_by_key, projectVars, resultsArtifact>>

\* A missing entry read as an empty target: translated.get(source, "").
TargetOf_MissingIsEmpty(response, source) == Get(response, source, <<>>)

\* target = translated.get(source, source)  (i18n_workflow.py:465)
TargetOf(response, source) == Get(response, source, source)

\* The whole request repeated as soon as one of its sources fails.
NextPending_WholeRequest(sources, response) ==
    IF \E i \in DOMAIN sources :
          ~validate_translation(sources[i], Get(response, sources[i], sources[i])).ok
    THEN sources ELSE <<>>

\* The sources of `sources` that fail validation against `response`, in order
\* (next_pending, i18n_workflow.py:461-472).
NextPending(sources, response) ==
    SelectSeq(sources, LAMBDA s : ~validate_translation(s, TargetOf(response, s)).ok)

\* issues (i18n_workflow.py:462, 472), the content of the feedback.
Issues(sources, response) ==
    LET failing == NextPending(sources, response)
    IN  [i \in DOMAIN failing |->
            LET v == validate_translation(failing[i], TargetOf(response, failing[i]))
            IN  [source |-> failing[i], reason |-> v.reason,
                 expected |-> v.expected, got |-> v.got]]

\* One retry more than MAX_RETRIES.
Retries_OneMore(next_pending, att) == next_pending # <<>> /\ att < MAX_RETRIES + 1

\* One retry fewer than MAX_RETRIES.
Retries_OneFewer(next_pending, att) == next_pending # <<>> /\ att < MAX_RETRIES - 1

\* Retrying for as long as something fails.
Retries_Unbounded(next_pending, att) == next_pending # <<>>

\* The retry decision (i18n_workflow.py:474): another attempt is made.
Retries(next_pending, att) == next_pending # <<>> /\ att < MAX_RETRIES

\* A translate_candidates whose attempt counter runs on from one batch to
\* the next.
ReceiveResponse_KeepingAttempt(response) ==
    LET passed       == {s \in Range(pending) :
                            validate_translation(s, TargetOf(response, s)).ok}
        next_pending == NextPending(pending, response)
        targets1     == PutAll(final_targets, passed, [s \in passed |-> TargetOf(response, s)])
        vals1        == PutAll(validations, passed, [s \in passed |-> "ok"])
        failed       == Range(next_pending)
        targets2     == PutAll(targets1, failed, [s \in failed |-> s])
        vals2        == PutAll(vals1, failed, [s \in failed |-> "fallback_due_to_validation"])
    IN  /\ pc = "awaiting"
        /\ translated' = Some(response)
        /\ identityCount' = [s \in DOMAIN identityCount |->
                                IF s \in Range(pending) /\ s \in DOMAIN response /\ response[s] = s
                                THEN identityCount[s] + 1 ELSE identityCount[s]]
        /\ failCount' = [s \in DOMAIN failCount |->
                            IF s \in failed THEN failCount[s] + 1 ELSE failCount[s]]
        /\ IF Retries(next_pending, attempt)
           THEN /\ final_targets' = targets1
                /\ validations' = vals1
                /\ feedback' = Some(Issues(pending, response))
                /\ pending' = next_pending
                /\ attempt' = attempt + 1
                /\ pc' = "call"
                /\ UNCHANGED <<batchIdx, rows>>
           ELSE /\ final_targets' = targets2
                /\ validations' = vals2
                /\ IF batchIdx < Len(Batches)
                   THEN /\ batchIdx' = batchIdx + 1
                        /\ pending' = Batches[batchIdx + 1]
                        /\ feedback' = Nothing
                        /\ attempt' = attempt
                        /\ pc' = "call"
                        /\ rows' = rows
                   ELSE /\ rows' = BuildRows(candidates, targets2, vals2)
                        /\ pc' = "translated"
                        /\ UNCHANGED <<batchIdx, pending, feedback, attempt>>
        /\ UNCHANGED <<startupVars, validatorVars, catalogVars, ioVars, candidates, request, requestCount, sentCount, transportErrors,
                       plist_by_key, projectVars, resultsArtifact>>

\* call_openai_batch returns `response` and translate_candidates runs up
\* to its next call or to its return (i18n_workflow.py:461-501).
ReceiveResponse(response) ==
    LET passed       == {s \in Range(pending) :
                            validate_translation(s, TargetOf(response, s)).ok}
        next_pending == NextPending(pending, response)
        targets1     == PutAll(final_targets, passed, [s \in passed |-> TargetOf(response, s)])
        vals1        == PutAll(validations, passed, [s \in passed |-> "ok"])
        failed       == Range(next_pending)
        targets2     == PutAll(targets1, failed, [s \in failed |-> s])
        vals2        == PutAll(vals1, failed, [s \in failed |-> "fallback_due_to_validation"])
    IN  /\ pc = "awaiting"
        /\ translated' = Some(response)
        /\ identityCount' = [s \in DOMAIN identityCount |->
                                IF s \in Range(pending) /\ s \in DOMAIN response /\ response[s] = s
                                THEN identityCount[s] + 1 ELSE identityCount[s]]
        /\ failCount' = [s \in DOMAIN failCount |->
                            IF s \in failed THEN failCount[s] + 1 ELSE failCount[s]]
        /\ IF Retries(next_pending, attempt)
           THEN /\ final_targets' = targets1
                /\ validations' = vals1
                /\ feedback' = Some(Issues(pending, response))
                /\ pending' = next_pending
                /\ attempt' = attempt + 1
                /\ pc' = "call"
                /\ UNCHANGED <<batchIdx, rows>>
           ELSE /\ final_targets' = targets2
                /\ validations' = vals2
                /\ IF batchIdx < Len(Batches)
                   THEN /\ batchIdx' = batchIdx + 1
                        /\ pending' = Batches[batchIdx + 1]
                        /\ feedback' = Nothing
                        /\ attempt' = 0
                        /\ pc' = "call"
                        /\ rows' = rows
                   ELSE /\ rows' = BuildRows(candidates, targets2, vals2)
                        /\ pc' = "translated"
                        /\ UNCHANGED <<batchIdx, pending, feedback, attempt>>
        /\ UNCHANGED <<startupVars, validatorVars, catalogVars, ioVars, candidates, request, requestCount, sentCount, transportErrors,
                       plist_by_key, projectVars, resultsArtifact>>

\* A call_openai_batch that keeps the first of several rows with the same
\* source.
ParseTranslations_FirstWins(answer) ==
    LET wellFormed == {i \in DOMAIN answer : answer[i].target # Nothing}
        FirstOf(s) == CHOOSE i \in wellFormed :
                          /\ answer[i].source = s
                          /\ \A j \in wellFormed : answer[j].source = s => i <= j
    IN  [s \in {answer[i].source : i \in wellFormed} |-> answer[FirstOf(s)].target[1]]

\* The dict call_openai_batch builds from the rows of the response
\* (i18n_workflow.py:278-284): a row counts when its source and its target
\* are strings (a target that is not a string is Nothing here), and a
\* later row replaces an earlier one with the same source.
ParseTranslations(answer) ==
    LET wellFormed == {i \in DOMAIN answer : answer[i].target # Nothing}
        LastOf(s) == CHOOSE i \in wellFormed :
                         /\ answer[i].source = s
                         /\ \A j \in wellFormed : answer[j].source = s => j <= i
    IN  [s \in {answer[i].source : i \in wellFormed} |-> answer[LastOf(s)].target[1]]

\* A response with one row per entry of `response`: the requested sources
\* in the order of the request, then the others.
RowsInRequestOrder(response, sources, all) ==
    LET asked  == SelectSeq(sources, LAMBDA s : s \in DOMAIN response)
        others == SelectSeq(all, LAMBDA s : s \in DOMAIN response /\ s \notin Range(sources))
        keys   == asked \o others
    IN  [i \in DOMAIN keys |-> [source |-> keys[i], target |-> Some(response[keys[i]])]]

\* A string the response may carry although it was not requested: the
\* first source that an earlier attempt or batch finalized.
StraySources ==
    LET done == SelectSeq(ordered_sources,
                          LAMBDA s : s \in DOMAIN final_targets /\ s \notin Range(pending))
    IN  IF done = <<>> THEN {} ELSE {done[1]}

\* The service answers the request in flight.
ServiceAnswers ==
    \E response \in ServiceResponses(pending, StraySources) :
        LET answer == RowsInRequestOrder(response, pending, ordered_sources)
        IN  /\ parsed' = Some(answer)
            /\ ReceiveResponse(ParseTranslations(answer))

\* A transport failure answered by sending the same request again.
TransportFailure_Retried ==
    /\ pc = "awaiting"
    /\ pc' = "call"
    /\ transportErrors' = transportErrors + 1
    /\ UNCHANGED <<startupVars, validatorVars, catalogVars, ioVars, candidates, orchestratorVars, rows, request, translated, parsed, requestCount,
                   sentCount, identityCount, failCount, plist_by_key, projectVars,
                   resultsArtifact>>

\* A transport failure that leaves the targets finalized so far merged
\* into the app catalog.
TransportFailure_AfterPartialMerge ==
    /\ pc = "awaiting"
    /\ pc' = "raised"
    /\ transportErrors' = transportErrors + 1
    /\ appCatalog' = update_catalog(appCatalog, TargetLanguage,
                                    GroupMap(BuildRows(candidates, final_targets, validations),
                                             "app", Len(candidates))).file
    /\ UNCHANGED <<startupVars, validatorVars, catalogVars, ioVars, candidates, orchestratorVars, rows, request, translated, parsed, requestCount,
                   sentCount, identityCount, failCount, plist_by_key, widgetCatalog,
                   knownRegions, appInfoPlist, widgetInfoPlist, infoPlistStrings,
                   resultsArtifact>>

\* call_openai_batch raises (HTTP error, connection error, empty or
\* unparsable body: i18n_workflow.py:260-276); neither translate_candidates
\* nor main() catches it (i18n_workflow.py:452, 831).
TransportFailure ==
    /\ pc = "awaiting"
    /\ pc' = "raised"
    /\ transportErrors' = transportErrors + 1
    /\ UNCHANGED <<startupVars, validatorVars, catalogVars, ioVars, candidates, orchestratorVars, rows, request, translated, parsed, requestCount,
                   sentCount, identityCount, failCount, plist_by_key, projectVars,
                   resultsArtifact>>

\* A main() that goes on to the merge without writing the results artifact.
WriteResults_Skipped ==
    /\ pc = "translated"
    /\ resultsArtifact' = resultsArtifact
    /\ pc' = "results_written"
    /\ batchIdx' = 0
    /\ attempt' = 0
    /\ pending' = <<>>
    /\ feedback' = Nothing
    /\ final_targets' = EmptyDict
    /\ validations' = EmptyDict
    /\ request' = Nothing
    /\ translated' = Nothing
    /\ parsed' = Nothing
    /\ requestCount' = [b \in DOMAIN requestCount |-> 0]
    /\ sentCount' = [s \in DOMAIN sentCount |-> 0]
    /\ identityCount' = [s \in DOMAIN identityCount |-> 0]
    /\ failCount' = [s \in DOMAIN failCount |-> 0]
    /\ UNCHANGED <<startupVars, validatorVars, catalogVars, ioVars, candidates, rows, transportErrors, plist_by_key, projectVars>>

\* main() receives the rows and write_results_artifact(results_path, args,
\* rows) writes them (i18n_workflow.py:831-839). The frame of
\* translate_candidates is gone, and with it the record of its exchange
\* with the service.
WriteResults ==
    /\ pc = "translated"
    /\ resultsArtifact' = Some(rows)
    /\ pc' = "results_written"
    /\ batchIdx' = 0
    /\ attempt' = 0
    /\ pending' = <<>>
    /\ feedback' = Nothing
    /\ final_targets' = EmptyDict
    /\ validations' = EmptyDict
    /\ request' = Nothing
    /\ translated' = Nothing
    /\ parsed' = Nothing
    /\ requestCount' = [b \in DOMAIN requestCount |-> 0]
    /\ sentCount' = [s \in DOMAIN sentCount |-> 0]
    /\ identityCount' = [s \in DOMAIN identityCount |-> 0]
    /\ failCount' = [s \in DOMAIN failCount |-> 0]
    /\ UNCHANGED <<startupVars, validatorVars, catalogVars, ioVars, candidates, rows, transportErrors, plist_by_key, projectVars>>

\* region_added = ensure_known_region(project_root, language)
\* (i18n_workflow.py:842).
EnsureKnownRegion ==
    /\ pc = "results_written"
    /\ knownRegions' = ensure_known_region(knownRegions, TargetLanguage).block
    /\ reads' = [reads EXCEPT ![PbxPath] = @ + 1]
    /\ writes' = [writes EXCEPT ![PbxPath] =
                      IF ensure_known_region(knownRegions, TargetLanguage).changed
                      THEN @ + 1 ELSE @]
    /\ pc' = "region_ensured"
    /\ UNCHANGED <<startupVars, validatorVars, catalogVars, candidates, orchestratorVars, rows, historyVars, plist_by_key,
                   appCatalog, widgetCatalog, appInfoPlist, widgetInfoPlist,
                   infoPlistStrings, resultsArtifact>>

\* known_regions = get_known_regions(project_root);
\* sync_info_plist_localizations(project_root, known_regions)
\* (i18n_workflow.py:843-844).
SyncInfoPlists ==
    /\ pc = "region_ensured"
    /\ appInfoPlist' = SyncedLocalizations(appInfoPlist, get_known_regions(knownRegions))
    /\ widgetInfoPlist' = SyncedLocalizations(widgetInfoPlist, get_known_regions(knownRegions))
    /\ reads' = [reads EXCEPT ![PbxPath] = @ + 1]
    /\ pc' = "plists_synced"
    /\ UNCHANGED <<startupVars, validatorVars, catalogVars, writes, candidates, orchestratorVars, rows, historyVars, plist_by_key,
                   appCatalog, widgetCatalog, knownRegions, infoPlistStrings, resultsArtifact>>

\* counters = apply_translations(project_root, language, rows, plist_by_key)
\* (i18n_workflow.py:845).
ApplyTranslations ==
    /\ pc = "plists_synced"
    /\ LET applied == apply_translations(appCatalog, widgetCatalog, TargetLanguage,
                                         rows, plist_by_key)
       IN  /\ appCatalog' = applied.app
           /\ widgetCatalog' = applied.widget
           /\ infoPlistStrings' = Some(applied.strings)
           /\ reads' = [f \in SharedFiles |-> reads[f] + applied.reads[f]]
           /\ writes' = [f \in SharedFiles |-> writes[f] + applied.writes[f]]
    /\ pc' = "applied"
    /\ UNCHANGED <<startupVars, validatorVars, catalogVars, candidates, orchestratorVars, rows, historyVars, plist_by_key,
                   knownRegions, appInfoPlist, widgetInfoPlist, resultsArtifact>>

Next ==
    \/ EnterTranslate
    \/ IssueRequest
    \/ ServiceAnswers
    \/ TransportFailure
    \/ WriteResults
    \/ EnsureKnownRegion
    \/ SyncInfoPlists
    \/ ApplyTranslations

Spec == Init /\ [][Next]_vars

(***************************************************************************)
(* Properties of the batch translation orchestrator.                       *)
(***************************************************************************)
\* The row of source s among the rows rs.
RowFor(rs, s) == rs[CHOOSE i \in DOMAIN rs : rs[i].source = s]

\* translate_candidates is returning its rows.
Returned == pc = "translated"

\* The response to the last request has just been worked off: `request`
\* is the request it answers and `translated` the response.
JustAnswered == pc \in {"call", "translated"} /\ request # Nothing /\ translated # Nothing

\* Source and target have the same placeholder tuple, the same
\* interpolation tuple and the same unit set.
SameTokens(source, target) ==
    LET src == extract_token_set(source)
        dst == extract_token_set(target)
    IN  /\ src.placeholders = dst.placeholders
        /\ src.interpolations = dst.interpolations
        /\ Range(src.units) = Range(dst.units)

\* The target is one validation lets through.
Acceptable(source, target) == SameTokens(source, target) /\ ~IsBlank(target)

\* Every response to a request of batch b answered each requested source
\* with the source itself.
OnlyIdentityAnswers(b) ==
    \A s \in Range(Batches[b]) : sentCount[s] >= 1 /\ identityCount[s] = sentCount[s]

\* C1 as the spec states it: when the service returns only identity
\* translations for a batch, every Candidate of the batch ends with status
\* "fallback" and validation "fallback_due_to_validation", after exactly
\* MAX_RETRIES + 1 service calls for the batch.
C1_IdentityExhaustsRetries ==
    Returned =>
        \A b \in DOMAIN Batches :
            OnlyIdentityAnswers(b) =>
                /\ requestCount[b] = MAX_RETRIES + 1
                /\ \A s \in Range(Batches[b]) :
                      /\ RowFor(rows, s).status = "fallback"
                      /\ RowFor(rows, s).validation = "fallback_due_to_validation"

\* C1 amended: when the service returns only identity translations for a
\* batch, every Candidate of the batch ends with target = source, status
\* "fallback" and validation "ok", after exactly one service call for the
\* batch (an identity translation of a non-blank source passes validation).
C1_IdentityAcceptedAtOnce ==
    Returned =>
        \A b \in DOMAIN Batches :
            OnlyIdentityAnswers(b) =>
                /\ requestCount[b] = 1
                /\ \A s \in Range(Batches[b]) :
                      /\ RowFor(rows, s).target = s
                      /\ RowFor(rows, s).status = "fallback"
                      /\ RowFor(rows, s).validation = "ok"

\* A run of two batches whose second batch got only identity answers.
C1_Witness ==
    /\ Returned
    /\ Len(Batches) >= 2
    /\ OnlyIdentityAnswers(Len(Batches))
    /\ requestCount[1] > 1

\* C2: a text whose target failed validation at every attempt it was sent
\* in was sent in exactly MAX_RETRIES + 1 requests, every request after
\* attempt 0 carrying feedback that names it, and is finalized with
\* target = source, status "fallback" and validation
\* "fallback_due_to_validation".
C2_AlwaysFailingTextFallsBack ==
    /\ (request # Nothing /\ request[1].attempt > 0) =>
          /\ request[1].feedback # Nothing
          /\ \A s \in Range(request[1].sources) :
                \E i \in DOMAIN request[1].feedback[1] : request[1].feedback[1][i].source = s
    /\ (request # Nothing /\ request[1].attempt = 0) => request[1].feedback = Nothing
    /\ Returned =>
          \A s \in Range(ordered_sources) :
              failCount[s] = sentCount[s] =>
                  /\ sentCount[s] = MAX_RETRIES + 1
                  /\ RowFor(rows, s).target = s
                  /\ RowFor(rows, s).status = "fallback"
                  /\ RowFor(rows, s).validation = "fallback_due_to_validation"

\* A text failed at all its attempts while another text of the run was
\* translated.
C2_Witness ==
    /\ Returned
    /\ \E s \in Range(ordered_sources) : failCount[s] = sentCount[s] /\ sentCount[s] >= 1
    /\ \E i \in DOMAIN rows : rows[i].status = "translated"

\* C3: at most MAX_RETRIES + 1 requests are issued for a batch, and at
\* least one for every batch the orchestrator has worked on.
C3_RequestsPerBatchBounded ==
    /\ \A b \in DOMAIN requestCount : requestCount[b] <= MAX_RETRIES + 1
    /\ pc \in {"call", "awaiting", "raised"} =>
          \A b \in DOMAIN requestCount : b < batchIdx => requestCount[b] >= 1
    /\ pc \in {"awaiting", "raised"} => requestCount[batchIdx] >= 1
    /\ Returned => \A b \in DOMAIN requestCount : requestCount[b] >= 1

\* One batch used all its attempts, another a single one.
C3_Witness ==
    /\ Returned
    /\ \E b \in DOMAIN requestCount : requestCount[b] = MAX_RETRIES + 1
    /\ \E b \in DOMAIN requestCount : requestCount[b] = 1

\* C4: in every returned row with a non-blank source the target has the
\* placeholder tuple, the interpolation tuple and the unit set of the
\* source, and validate_translation(row.source, row.target) reports ok.
C4_TokenPreservation ==
    \A i \in DOMAIN rows :
        ~IsBlank(rows[i].source) =>
            /\ SameTokens(rows[i].source, rows[i].target)
            /\ validate_translation(rows[i].source, rows[i].target).ok

\* Rows were returned for a translated text with an interpolation span and
\* for a text the service never got right.
C4_Witness ==
    /\ \E i \in DOMAIN rows :
          /\ rows[i].status = "translated"
          /\ extract_token_set(rows[i].source).interpolations # <<>>
    /\ \E i \in DOMAIN rows : rows[i].validation = "fallback_due_to_validation"

\* C5: the sources of attempt k+1 of a batch are the sources of attempt k
\* that failed validation, in the same order; a source finalized with
\* validation "ok" is not sent again and its target does not change in a
\* later attempt or batch, and is the target of its row.
C5_OnlyInvalidSubsetRetried ==
    [][/\ (pc = "call" /\ pc' = "awaiting" /\ attempt > 0) =>
              /\ request'[1].batch = request[1].batch
              /\ request'[1].attempt = request[1].attempt + 1
              /\ request'[1].sources =
                    SelectSeq(request[1].sources,
                              LAMBDA s : ~Acceptable(s, Get(translated[1], s, s)))
       /\ pc' \in {"call", "awaiting", "translated", "raised"} =>
              \A s \in DOMAIN validations :
                  validations[s] = "ok" =>
                      /\ sentCount'[s] = sentCount[s]
                      /\ s \in DOMAIN final_targets'
                      /\ final_targets'[s] = final_targets[s]
                      /\ validations'[s] = "ok"
                      /\ pc' = "translated" => RowFor(rows', s).target = final_targets[s]
      ]_vars

\* A retry is in flight for part of a batch while another source of the
\* same batch is already finalized with "ok".
C5_Witness ==
    /\ pc = "awaiting"
    /\ attempt > 0
    /\ \E s \in Range(Batches[batchIdx]) :
          s \in DOMAIN validations /\ validations[s] = "ok" /\ final_targets[s] # s
    /\ batchIdx < Len(Batches)

\* C6: translate_candidates returns one row per Candidate, in the order of
\* the Candidates, each with its Candidate's source and contexts.
C6_OneRowPerCandidate ==
    pc \in {"translated", "results_written", "region_ensured", "plists_synced", "applied"} =>
        /\ Len(rows) = Len(candidates)
        /\ \A i \in DOMAIN candidates :
              /\ rows[i].source = candidates[i].source
              /\ rows[i].contexts = candidates[i].contexts

\* Rows were returned for several batches, one of them a fallback after
\* exhausted retries.
C6_Witness ==
    /\ Returned
    /\ Len(Batches) >= 2
    /\ \E i \in DOMAIN rows : rows[i].validation = "fallback_due_to_validation"
    /\ \E i \in DOMAIN rows : Len(rows[i].contexts) >= 2

\* C7: a text whose returned target passes validation is finalized at that
\* attempt with that target and validation "ok"; its row has validation
\* "ok" and status "translated" when the target differs from the source,
\* "fallback" when it is the source.
C7_ValidTargetFinalized ==
    /\ JustAnswered =>
          \A s \in Range(request[1].sources) \cap DOMAIN translated[1] :
              Acceptable(s, translated[1][s]) =>
                  /\ s \in DOMAIN final_targets
                  /\ final_targets[s] = translated[1][s]
                  /\ validations[s] = "ok"
                  /\ pc = "call" => s \notin Range(pending)
    /\ Returned =>
          \A s \in DOMAIN validations :
              validations[s] = "ok" =>
                  /\ RowFor(rows, s).target = final_targets[s]
                  /\ RowFor(rows, s).validation = "ok"
                  /\ RowFor(rows, s).status =
                        IF final_targets[s] # s THEN "translated" ELSE "fallback"

\* The last response carried a valid target equal to its source and a
\* valid target different from its source.
C7_Witness ==
    /\ Returned
    /\ JustAnswered
    /\ \E s \in Range(request[1].sources) \cap DOMAIN translated[1] : translated[1][s] = s
    /\ \E s \in Range(request[1].sources) \cap DOMAIN translated[1] :
          translated[1][s] # s /\ Acceptable(s, translated[1][s])

\* C8 as the spec states it: a pending source without an entry in the
\* response fails validation at that attempt and is not finalized with
\* validation "ok".
C8_MissingEntryFailsValidation ==
    JustAnswered =>
        \A s \in Range(request[1].sources) \ DOMAIN translated[1] :
            ~(s \in DOMAIN validations /\ validations[s] = "ok")

\* C8 amended: a pending source without an entry in the response gets the
\* source itself as target, which passes validation for a non-blank
\* source: the text is finalized at that attempt with target = source and
\* validation "ok" (status "fallback" in its row) and is not carried into
\* the next attempt.
C8_MissingEntryFinalizedAsIdentity ==
    /\ JustAnswered =>
          \A s \in Range(request[1].sources) \ DOMAIN translated[1] :
              ~IsBlank(s) =>
                  /\ s \in DOMAIN final_targets
                  /\ final_targets[s] = s
                  /\ validations[s] = "ok"
                  /\ pc = "call" => s \notin Range(pending)
                  /\ failCount[s] = sentCount[s] - 1
    /\ (Returned /\ JustAnswered) =>
          \A s \in Range(request[1].sources) \ DOMAIN translated[1] :
              ~IsBlank(s) =>
                  /\ RowFor(rows, s).target = s
                  /\ RowFor(rows, s).status = "fallback"
                  /\ RowFor(rows, s).validation = "ok"

\* The response to a retry left out a requested source that had failed
\* before, while answering another one.
C8_Witness ==
    /\ JustAnswered
    /\ request[1].attempt > 0
    /\ \E s \in Range(request[1].sources) : s \notin DOMAIN translated[1]
    /\ \E s \in Range(request[1].sources) : s \in DOMAIN translated[1]

\* C9: a transport failure is not retried: the run ends with the error
\* raised out of main(), the failed request was issued once, no request
\* of a later batch was issued, no rows were returned and no results
\* artifact was written.
C9_TransportFailureIsFatal ==
    /\ transportErrors > 0 =>
          /\ pc = "raised"
          /\ transportErrors = 1
          /\ rows = <<>>
          /\ resultsArtifact = Nothing
          /\ request[1].batch = batchIdx
          /\ request[1].attempt = attempt
          /\ requestCount[batchIdx] = attempt + 1
          /\ \A b \in DOMAIN requestCount : b > batchIdx => requestCount[b] = 0
    /\ pc = "raised" => transportErrors > 0

\* The request of a retry failed in the first of several batches.
C9_Witness ==
    /\ pc = "raised"
    /\ transportErrors = 1
    /\ attempt > 0
    /\ batchIdx < Len(Batches)

\* The project files are those of one of the projects a run starts from.
ProjectUntouched ==
    \E project \in Projects :
        /\ appCatalog = project.appCatalog
        /\ widgetCatalog = project.widgetCatalog
        /\ knownRegions = project.knownRegions
        /\ appInfoPlist = project.appInfoPlist
        /\ widgetInfoPlist = project.widgetInfoPlist
        /\ infoPlistStrings = project.infoPlistStrings

\* The catalog file holds, under key s, the value `value` for the target
\* language.
HasLocalization(file, s, value) ==
    /\ file # Nothing
    /\ HasKey(file[1].strings, s)
    /\ ValueAt(file[1].strings, s).localizations # Nothing
    /\ TargetLanguage \in DOMAIN ValueAt(file[1].strings, s).localizations[1]
    /\ ValueAt(file[1].strings, s).localizations[1][TargetLanguage].value = value

\* The sources of the batches completed before the batch in hand.
CompletedSources == UNION {Range(Batches[b]) : b \in 1..(batchIdx - 1)}

\* The Candidate of source s.
CandidateFor(s) == candidates[CHOOSE i \in DOMAIN candidates : candidates[i].source = s]

\* C10 as the spec states it: after a fatal transport error the
\* translations of the batches completed before it are merged in the
\* catalogs of their target groups.
C10_CompletedBatchesMerged ==
    pc = "raised" =>
        \A s \in CompletedSources :
            /\ ("app" \in TargetsOfRow(CandidateFor(s)) =>
                   HasLocalization(appCatalog, s, final_targets[s]))
            /\ ("widget" \in TargetsOfRow(CandidateFor(s)) =>
                   HasLocalization(widgetCatalog, s, final_targets[s]))

\* C10 amended: nothing is merged before every batch is finalized; after a
\* fatal transport error the catalogs and the other project files are as
\* they were before the run, also when batches were completed before the
\* error, and no results artifact exists.
C10_NothingMergedOnAbort ==
    pc = "raised" => ProjectUntouched /\ resultsArtifact = Nothing

\* The run aborted in a later batch after a text of a completed batch had
\* been translated.
C10_Witness ==
    /\ pc = "raised"
    /\ batchIdx >= 2
    /\ \E s \in CompletedSources : validations[s] = "ok" /\ final_targets[s] # s

(***************************************************************************)
(* Properties of the catalog merge.                                        *)
(***************************************************************************)
\* The counters of a merge that changed nothing.
ZeroCounters ==
    [appCatalogEntriesUpdated |-> 0, widgetCatalogEntriesUpdated |-> 0,
     appSanitizedKeys |-> 0, widgetSanitizedKeys |-> 0]

\* The key of the auto-generated format entry of LocalizedProject.
FormatKey == <<"%", "d">>

\* C11: applying the same finalized rows for the same language a second
\* time, after the first application and its sanitize pass, leaves both
\* catalogs and the permission file as they are and returns counters that
\* are all zero.
C11_MergeIdempotent ==
    pc = "applied" =>
        LET again == apply_translations(appCatalog, widgetCatalog, TargetLanguage,
                                        rows, plist_by_key)
        IN  /\ again.app = appCatalog
            /\ again.widget = widgetCatalog
            /\ Some(again.strings) = infoPlistStrings
            /\ again.counters = ZeroCounters

\* The first application wrote a translation into a catalog that existed
\* and the sanitize pass removed the localization of the format key.
C11_Witness ==
    /\ pc = "applied"
    /\ \E i \in DOMAIN rows :
          /\ rows[i].status = "translated"
          /\ "app" \in TargetsOfRow(rows[i])
          /\ HasLocalization(appCatalog, rows[i].source, rows[i].target)
    /\ HasKey(appCatalog[1].strings, FormatKey)
    /\ ~HasLocalization(appCatalog, FormatKey, FormatKey)

(***************************************************************************)
(* validate_translation on its own (i18n_workflow.py:287-306): the texts   *)
(* passed are built from structural tokens and white space.                *)
(***************************************************************************)
\* Most pieces a source text is built from.
MaxSourcePieces == 3

\* Most pieces a target text is built from.
MaxTargetPieces == 2

\* "%d", "\(x)", "\(y)", "°F", "°C" and a blank.
Pieces ==
    {<<"%", "d">>, <<"\\", "(", "x", ")">>, <<"\\", "(", "y", ")">>, UnitF, UnitC, <<" ">>}

\* The texts of at most n pieces.
TextsOf(n) == UNION {{Concat(ps) : ps \in [1..k -> Pieces]} : k \in 0..n}

\* No run of main() is under way: nothing scanned, requested or written.
NoRun ==
    /\ pc = "none"
    /\ candidates = <<>>
    /\ batchIdx = 0
    /\ attempt = 0
    /\ pending = <<>>
    /\ feedback = Nothing
    /\ final_targets = EmptyDict
    /\ validations = EmptyDict
    /\ rows = <<>>
    /\ request = Nothing
    /\ translated = Nothing
    /\ parsed = Nothing
    /\ requestCount = <<>>
    /\ sentCount = EmptyDict
    /\ identityCount = EmptyDict
    /\ failCount = EmptyDict
    /\ transportErrors = 0
    /\ plist_by_key = EmptyDict
    /\ appCatalog = Nothing
    /\ widgetCatalog = Nothing
    /\ knownRegions = <<>>
    /\ appInfoPlist = Nothing
    /\ widgetInfoPlist = Nothing
    /\ infoPlistStrings = Nothing
    /\ resultsArtifact = Nothing
    /\ args = ApplyArgs
    /\ scan = NoScan
    /\ exit = Nothing
    /\ artifactDir = FALSE
    /\ candidatesArtifact = Nothing

\* The variables of a run of main().
mainVars ==
    <<pc, candidates, orchestratorVars, rows, historyVars, plist_by_key, projectVars,
      resultsArtifact, startupVars>>

ValidatorInit ==
    /\ NoRun
    /\ checkedSource \in TextsOf(MaxSourcePieces)
    /\ checkedTarget \in TextsOf(MaxTargetPieces)
    /\ verdict = Nothing
    /\ translations = <<>>
    /\ changed = Nothing
    /\ reads = NoIO
    /\ writes = NoIO

\* ok, reason = validate_translation(source, target)
Validate ==
    /\ verdict = Nothing
    /\ verdict' = Some(validate_translation(checkedSource, checkedTarget))
    /\ UNCHANGED <<mainVars, catalogVars, ioVars, checkedSource, checkedTarget>>

\* validate_translation(s, s) for the source passed.
ValidateIdentity ==
    /\ verdict = Nothing
    /\ checkedTarget' = checkedSource
    /\ verdict' = Some(validate_translation(checkedSource, checkedSource))
    /\ UNCHANGED <<mainVars, catalogVars, ioVars, checkedSource>>

ValidatorNext == Validate \/ ValidateIdentity

ValidatorSpec == ValidatorInit /\ [][ValidatorNext]_vars

\* validate_translation has returned for the texts passed.
Validated == verdict # Nothing

\* The tokens of the source and of the target passed.
SrcTokens == extract_token_set(checkedSource)
DstTokens == extract_token_set(checkedTarget)

\* C12: validate(s, s) reports ok for every s with at least one format
\* placeholder or interpolation span.
C12_IdentityValidates ==
    (/\ Validated
     /\ checkedTarget = checkedSource
     /\ (SrcTokens.placeholders # <<>> \/ SrcTokens.interpolations # <<>>)) =>
        /\ verdict[1].ok
        /\ verdict[1].reason = "ok"

\* A text of a placeholder, an interpolation span and a unit was validated
\* against itself.
C12_Witness ==
    /\ Validated
    /\ checkedTarget = checkedSource
    /\ SrcTokens.placeholders # <<>>
    /\ SrcTokens.interpolations # <<>>
    /\ SrcTokens.units # <<>>

\* The number of occurrences of x in seq.
Count(seq, x) == Cardinality({i \in DOMAIN seq : seq[i] = x})

\* b holds the elements of a, each as often, in another order.
Reordered(a, b) ==
    /\ a # b
    /\ Len(a) = Len(b)
    /\ \A x \in Range(a) \cup Range(b) : Count(a, x) = Count(b, x)

\* C13 as the spec states it: a candidate whose interpolation spans are a
\* reordering of the source's spans fails with an interpolation mismatch.
C13_ReorderingIsInterpolationMismatch ==
    (Validated /\ Reordered(SrcTokens.interpolations, DstTokens.interpolations)) =>
        /\ ~verdict[1].ok
        /\ verdict[1].reason = "interpolation mismatch"

\* C13 amended: a candidate whose interpolation spans are a reordering of
\* the source's spans fails; the reason is an interpolation mismatch when
\* the placeholder tuples are equal, and a placeholder mismatch (which has
\* priority) when they differ.
C13_ReorderingFails ==
    (Validated /\ Reordered(SrcTokens.interpolations, DstTokens.interpolations)) =>
        /\ ~verdict[1].ok
        /\ SrcTokens.placeholders = DstTokens.placeholders =>
              /\ verdict[1].reason = "interpolation mismatch"
              /\ verdict[1].expected = SrcTokens.interpolations
              /\ verdict[1].got = DstTokens.interpolations
        /\ SrcTokens.placeholders # DstTokens.placeholders =>
              verdict[1].reason = "placeholder mismatch"

\* Two spans were exchanged in a target that has the placeholders of its
\* source and lost its unit.
C13_Witness ==
    /\ Validated
    /\ Reordered(SrcTokens.interpolations, DstTokens.interpolations)
    /\ SrcTokens.placeholders = DstTokens.placeholders
    /\ SrcTokens.units # DstTokens.units

\* C14: validate reports one reason, by priority: placeholder mismatch if
\* the placeholder tuples differ, else interpolation mismatch if the
\* interpolation tuples differ, else unit mismatch if the unit sets
\* differ, else empty translation if the candidate is empty or white space
\* only, else ok; an empty candidate for a source with placeholders
\* reports placeholder mismatch.
C14_ReasonByPriority ==
    Validated =>
        LET placeholdersDiffer   == SrcTokens.placeholders # DstTokens.placeholders
            interpolationsDiffer == SrcTokens.interpolations # DstTokens.interpolations
            unitsDiffer          == Range(SrcTokens.units) # Range(DstTokens.units)
            empty                == \A i \in DOMAIN checkedTarget : IsSpace(checkedTarget[i])
        IN  /\ placeholdersDiffer => verdict[1].reason = "placeholder mismatch"
            /\ (~placeholdersDiffer /\ interpolationsDiffer) =>
                  verdict[1].reason = "interpolation mismatch"
            /\ (~placeholdersDiffer /\ ~interpolationsDiffer /\ unitsDiffer) =>
                  verdict[1].reason = "unit mismatch"
            /\ (~placeholdersDiffer /\ ~interpolationsDiffer /\ ~unitsDiffer /\ empty) =>
                  verdict[1].reason = "empty translation"
            /\ (~placeholdersDiffer /\ ~interpolationsDiffer /\ ~unitsDiffer /\ ~empty) =>
                  verdict[1].reason = "ok"
            /\ verdict[1].ok <=> verdict[1].reason = "ok"
            /\ (checkedTarget = <<>> /\ SrcTokens.placeholders # <<>>) =>
                  verdict[1].reason = "placeholder mismatch"

\* An empty candidate was validated for a source with a placeholder, an
\* interpolation span and a unit.
C14_Witness ==
    /\ Validated
    /\ checkedTarget = <<>>
    /\ SrcTokens.placeholders # <<>>
    /\ SrcTokens.interpolations # <<>>
    /\ SrcTokens.units # <<>>

(***************************************************************************)
(* main() up to the call of translate_candidates (i18n_workflow.py:        *)
(* 798-829), and the two aggregators on their own.                         *)
(***************************************************************************)
\* The --include-targets lists of the model, split at the commas.
TargetLists ==
    {<<"app", "widget">>, <<"widget", "app">>, <<"app">>, <<"widget">>, <<"app", "ipad">>,
     <<"app", "app">>, <<>>}

\* invalid_targets (i18n_workflow.py:803).
invalid_targets(include_targets) ==
    SelectSeq(include_targets, LAMBDA token : token \notin {"app", "widget"})

\* Nothing of a run exists yet but the project and the command line.
BeforeRun ==
    /\ candidates = <<>>
    /\ batchIdx = 0
    /\ attempt = 0
    /\ pending = <<>>
    /\ feedback = Nothing
    /\ final_targets = EmptyDict
    /\ validations = EmptyDict
    /\ rows = <<>>
    /\ request = Nothing
    /\ translated = Nothing
    /\ parsed = Nothing
    /\ requestCount = <<>>
    /\ sentCount = EmptyDict
    /\ identityCount = EmptyDict
    /\ failCount = EmptyDict
    /\ transportErrors = 0
    /\ plist_by_key = EmptyDict
    /\ resultsArtifact = Nothing
    /\ exit = Nothing
    /\ candidatesArtifact = Nothing
    /\ checkedSource = <<>>
    /\ checkedTarget = <<>>
    /\ verdict = Nothing
    /\ translations = <<>>
    /\ changed = Nothing
    /\ reads = NoIO
    /\ writes = NoIO
    /\ scan \in Scans
    /\ \E project \in Projects :
          /\ appCatalog = project.appCatalog
          /\ widgetCatalog = project.widgetCatalog
          /\ knownRegions = project.knownRegions
          /\ appInfoPlist = project.appInfoPlist
          /\ widgetInfoPlist = project.widgetInfoPlist
          /\ infoPlistStrings = project.infoPlistStrings

StartupInit ==
    /\ BeforeRun
    /\ pc = "start"
    /\ artifactDir = FALSE
    /\ args \in [include_targets : TargetLists, source_language : {"en"},
                 dry_run : BOOLEAN, api_key : BOOLEAN]

\* What translate_candidates and the merge steps read and write.
laterVars ==
    <<orchestratorVars, rows, historyVars, projectVars, resultsArtifact, validatorVars,
      catalogVars, ioVars>>

\* main() returns 2 for an invalid target group (i18n_workflow.py:802-806).
RejectTargets ==
    /\ pc = "start"
    /\ invalid_targets(args.include_targets) # <<>>
    /\ exit' = Some([code  |-> 2,
                     error |-> [kind  |-> "invalid_targets",
                                names |-> invalid_targets(args.include_targets)]])
    /\ pc' = "exited"
    /\ UNCHANGED <<laterVars, candidates, plist_by_key, args, scan, artifactDir,
                   candidatesArtifact>>

\* artifact_dir.mkdir(parents=True, exist_ok=True)
\* (i18n_workflow.py:808-810).
MakeArtifactDir ==
    /\ pc = "start"
    /\ invalid_targets(args.include_targets) = <<>>
    /\ artifactDir' = TRUE
    /\ pc' = "scan"
    /\ UNCHANGED <<laterVars, candidates, plist_by_key, args, scan, exit, candidatesArtifact>>

\* A main() that does not call build_candidates.
BuildCandidates_Skipped ==
    /\ pc = "scan"
    /\ pc' = "built"
    /\ UNCHANGED <<laterVars, candidates, plist_by_key, args, scan, exit, artifactDir,
                   candidatesArtifact>>

\* candidates, plist_by_key = build_candidates(project_root, include_targets);
\* main() returns 1 with the message of its RuntimeError
\* (i18n_workflow.py:812-816).
BuildCandidates ==
    /\ pc = "scan"
    /\ LET built == build_candidates(appCatalog, widgetCatalog, scan, args.include_targets)
       IN  IF built.raises
           THEN /\ exit' = Some([code  |-> 1,
                                 error |-> [kind  |-> "missing_keys",
                                            names |-> built.missing]])
                /\ pc' = "exited"
                /\ UNCHANGED <<candidates, plist_by_key>>
           ELSE /\ candidates' = built.result
                /\ plist_by_key' = built.plist_by_key
                /\ pc' = "built"
                /\ UNCHANGED exit
    /\ UNCHANGED <<laterVars, args, scan, artifactDir, candidatesArtifact>>

\* A main() that does not write the candidates artifact.
WriteCandidates_Skipped ==
    /\ pc = "built"
    /\ pc' = "candidates_written"
    /\ UNCHANGED <<laterVars, candidates, plist_by_key, args, scan, exit, artifactDir,
                   candidatesArtifact>>

\* write_candidates_artifact(candidates_path, candidates, ...)
\* (i18n_workflow.py:818-820).
WriteCandidates ==
    /\ pc = "built"
    /\ candidatesArtifact' = Some(candidates)
    /\ pc' = "candidates_written"
    /\ UNCHANGED <<laterVars, candidates, plist_by_key, args, scan, exit, artifactDir>>

\* if args.dry_run: return 0 (i18n_workflow.py:822-824).
DryRunReturn ==
    /\ pc = "candidates_written"
    /\ args.dry_run
    /\ exit' = Some([code |-> 0, error |-> [kind |-> "none", names |-> <<>>]])
    /\ pc' = "exited"
    /\ UNCHANGED <<laterVars, candidates, plist_by_key, args, scan, artifactDir,
                   candidatesArtifact>>

\* main() returns 2 without OPENAI_API_KEY (i18n_workflow.py:826-829).
MissingCredential ==
    /\ pc = "candidates_written"
    /\ ~args.dry_run
    /\ ~args.api_key
    /\ exit' = Some([code |-> 2, error |-> [kind |-> "missing_credential", names |-> <<>>]])
    /\ pc' = "exited"
    /\ UNCHANGED <<laterVars, candidates, plist_by_key, args, scan, artifactDir,
                   candidatesArtifact>>

\* A main() that goes on to translate_candidates in dry-run mode too.
StartTranslation_IgnoringDryRun ==
    /\ pc = "candidates_written"
    /\ args.api_key
    /\ pc' = "translate"
    /\ requestCount' = [b \in 1..NumChunks(ordered_sources, BATCH_SIZE) |-> 0]
    /\ sentCount' = [s \in Range(ordered_sources) |-> 0]
    /\ identityCount' = [s \in Range(ordered_sources) |-> 0]
    /\ failCount' = [s \in Range(ordered_sources) |-> 0]
    /\ UNCHANGED <<orchestratorVars, rows, request, translated, parsed, transportErrors,
                   projectVars, resultsArtifact, validatorVars, catalogVars, ioVars,
                   candidates, plist_by_key, startupVars>>

\* main() goes on to translate_candidates (i18n_workflow.py:831).
StartTranslation ==
    /\ pc = "candidates_written"
    /\ ~args.dry_run
    /\ args.api_key
    /\ pc' = "translate"
    /\ requestCount' = [b \in 1..NumChunks(ordered_sources, BATCH_SIZE) |-> 0]
    /\ sentCount' = [s \in Range(ordered_sources) |-> 0]
    /\ identityCount' = [s \in Range(ordered_sources) |-> 0]
    /\ failCount' = [s \in Range(ordered_sources) |-> 0]
    /\ UNCHANGED <<orchestratorVars, rows, request, translated, parsed, transportErrors,
                   projectVars, resultsArtifact, validatorVars, catalogVars, ioVars,
                   candidates, plist_by_key, startupVars>>

StartupNext ==
    \/ RejectTargets
    \/ MakeArtifactDir
    \/ BuildCandidates
    \/ WriteCandidates
    \/ DryRunReturn
    \/ MissingCredential
    \/ StartTranslation

StartupSpec == StartupInit /\ [][StartupNext]_vars

\* The two aggregators, each on every scan, for the target lists main()
\* accepts.
AggregatorInit ==
    /\ BeforeRun
    /\ pc = "scan"
    /\ artifactDir = TRUE
    /\ args \in [include_targets : {t \in TargetLists : invalid_targets(t) = <<>>},
                 source_language : {"en", "es"}, dry_run : {TRUE}, api_key : {FALSE}]

\* candidates = extract_candidates(project_root, include_targets,
\* args.source_lang) (localize_with_openai.py:545).
ExtractCandidates ==
    /\ pc = "scan"
    /\ candidates' = extract_candidates(scan, args.include_targets, args.source_language)
    /\ pc' = "extracted"
    /\ UNCHANGED <<laterVars, plist_by_key, startupVars>>

AggregatorNext == BuildCandidates \/ ExtractCandidates

AggregatorSpec == AggregatorInit /\ [][AggregatorNext]_vars

(***************************************************************************)
(* Properties of the aggregators and of the start of main().               *)
(***************************************************************************)
\* a and b hold the same elements, each once, in some order.
SameInAnyOrder(a, b) == Len(a) = Len(b) /\ Range(a) = Range(b)

\* The scans that enumerate the artifacts of the scan made in another
\* order of the files.
Rescans == {other \in Scans : /\ SameInAnyOrder(other.app, scan.app)
                              /\ SameInAnyOrder(other.widget, scan.widget)
                              /\ other.pbx = scan.pbx}

\* The target lists that name the target groups of the run in another
\* order.
ReorderedTargets == {t \in TargetLists : SameInAnyOrder(t, args.include_targets)}

\* C15: two scans of the same unchanged artifacts produce the same
\* Candidates in the same order, whatever the order in which the files and
\* the target groups are enumerated, also for sources that differ only in
\* letter case.
C15_OrderIndependentOfEnumeration ==
    pc = "built" =>
        \A other \in Rescans, targets \in ReorderedTargets :
            build_candidates(appCatalog, widgetCatalog, other, targets).result = candidates

\* C16: the Candidates an aggregator returns, build_candidates or
\* extract_candidates, are sorted by case-insensitive lexical order of
\* their sources.
C16_SortedCaseInsensitive ==
    pc \in {"built", "extracted"} =>
        \A i \in 1..(Len(candidates) - 1) :
            LowerLeq(candidates[i].source, candidates[i + 1].source)

\* The required permission-description keys the scanned manifest lacks.
AbsentKeys == Range(RequiredPlistKeys) \ {scan.pbx[i].key : i \in DOMAIN scan.pbx}

\* No request has been sent to the translation service.
NoRequestIssued ==
    /\ request = Nothing
    /\ \A b \in DOMAIN requestCount : requestCount[b] = 0

\* main() returned `code` with an error of kind `kind`.
ExitedWith(code, kind) ==
    /\ pc = "exited"
    /\ exit # Nothing
    /\ exit[1].code = code
    /\ exit[1].error.kind = kind

\* C17: when the manifest lacks a required permission-description key, a
\* run (one whose target-group argument let it reach the scan) never gets
\* past the scan: once the scan is done the run has returned 1 with an
\* error that names exactly the absent keys, each once; no request has been
\* issued and no catalog, manifest, region list or permission file has
\* been modified.
C17_MissingKeyAbortsBeforeAnyEffect ==
    (AbsentKeys # {} /\ invalid_targets(args.include_targets) = <<>>) =>
        /\ pc \in {"start", "scan", "exited"}
        /\ pc = "exited" =>
              /\ ExitedWith(1, "missing_keys")
              /\ Range(exit[1].error.names) = AbsentKeys
              /\ Len(exit[1].error.names) = Cardinality(AbsentKeys)
        /\ NoRequestIssued
        /\ ProjectUntouched
        /\ rows = <<>>
        /\ resultsArtifact = Nothing

\* A run stopped by a manifest that has one required key and lacks the
\* other.
C17_Witness ==
    /\ ExitedWith(1, "missing_keys")
    /\ Cardinality(AbsentKeys) = 1
    /\ exit[1].error.names = <<CHOOSE k \in AbsentKeys : TRUE>>

\* main() returned with a precondition failure.
PreconditionFailed == pc = "exited" /\ exit # Nothing /\ exit[1].code # 0

\* Nothing was sent to the service and no project file, no row and no
\* results artifact was written.
NothingTranslatedOrMerged ==
    /\ NoRequestIssued
    /\ ProjectUntouched
    /\ rows = <<>>
    /\ resultsArtifact = Nothing

\* C18 as stated: on every precondition failure the run has issued no
\* request and has written nothing: no catalog, manifest, region list,
\* permission file or artifact file.
C18_FailureWritesNothing ==
    PreconditionFailed =>
        /\ NothingTranslatedOrMerged
        /\ candidatesArtifact = Nothing

\* C18: on every precondition failure the run has issued no request and
\* has modified no catalog, manifest, region list or permission file and
\* written no results artifact; an invalid target group leaves nothing
\* written at all, a missing manifest key leaves the artifact directory,
\* and a missing credential leaves the artifact directory and the
\* candidates artifact of the scan.
C18_FailureWritesNoProjectState ==
    PreconditionFailed =>
        /\ NothingTranslatedOrMerged
        /\ exit[1].error.kind \in {"invalid_targets", "missing_keys", "missing_credential"}
        /\ exit[1].error.kind = "invalid_targets" =>
              ~artifactDir /\ candidatesArtifact = Nothing
        /\ exit[1].error.kind = "missing_keys" =>
              artifactDir /\ candidatesArtifact = Nothing
        /\ exit[1].error.kind = "missing_credential" =>
              artifactDir /\ candidatesArtifact = Some(candidates)

\* A run without credential that stopped after writing the inventory of
\* the candidates it found.
C18_Witness ==
    /\ ExitedWith(2, "missing_credential")
    /\ candidates # <<>>
    /\ candidatesArtifact = Some(candidates)

\* C19: a dry run gets no further than the candidates artifact: it issues
\* no request, modifies no catalog, manifest, region list, Info.plist or
\* InfoPlist.strings and writes no results artifact; when it returns 0 it
\* has extracted the Candidates of the scan and written them to the
\* candidates artifact.
C19_DryRunWritesOnlyInventory ==
    args.dry_run =>
        /\ pc \in {"start", "scan", "built", "candidates_written", "exited"}
        /\ NothingTranslatedOrMerged
        /\ ExitedWith(0, "none") =>
              /\ candidates =
                    build_candidates(appCatalog, widgetCatalog, scan, args.include_targets).result
              /\ candidatesArtifact = Some(candidates)
              /\ artifactDir

\* A dry run without credential that returned 0 with a non-empty inventory.
C19_Witness ==
    /\ args.dry_run
    /\ ~args.api_key
    /\ ExitedWith(0, "none")
    /\ candidates # <<>>
    /\ candidatesArtifact = Some(candidates)

(***************************************************************************)
(* The merge phase of main() (i18n_workflow.py:838-845) on the rows of the *)
(* Candidates build_candidates found: the state after the results artifact *)
(* was written, for every project, every scan with both permission         *)
(* descriptions and every target list main() accepts.                      *)
(***************************************************************************)
\* The rows translate_candidates returns for cands when the sources at the
\* indices of `done` got the translation TgtKeeping and the others fell
\* back to the source (i18n_workflow.py:487-501).
RowsOf(cands, done) ==
    LET sources == {cands[i].source : i \in done}
    IN  BuildRows(cands, [s \in sources |-> TgtKeeping(s)], [s \in sources |-> "ok"])

MergeInit ==
    /\ pc = "results_written"
    /\ args \in [include_targets : {t \in TargetLists : invalid_targets(t) = <<>> /\ t # <<>>},
                 source_language : {"en"}, dry_run : {FALSE}, api_key : {TRUE}]
    /\ scan \in {sc \in Scans : sc.pbx = PbxLines}
    /\ exit = Nothing
    /\ artifactDir = TRUE
    /\ \E project \in Projects :
          /\ appCatalog = project.appCatalog
          /\ widgetCatalog = project.widgetCatalog
          /\ knownRegions = project.knownRegions
          /\ appInfoPlist = project.appInfoPlist
          /\ widgetInfoPlist = project.widgetInfoPlist
          /\ infoPlistStrings = project.infoPlistStrings
    /\ LET built == build_candidates(appCatalog, widgetCatalog, scan, args.include_targets)
       IN  /\ candidates = built.result
           /\ plist_by_key = built.plist_by_key
    /\ candidatesArtifact = Some(candidates)
    /\ rows \in {RowsOf(candidates, done) :
                    done \in {DOMAIN candidates, {}, DOMAIN candidates \ {1}}}
    /\ resultsArtifact = Some(rows)
    /\ batchIdx = 0
    /\ attempt = 0
    /\ pending = <<>>
    /\ feedback = Nothing
    /\ final_targets = EmptyDict
    /\ validations = EmptyDict
    /\ request = Nothing
    /\ translated = Nothing
    /\ parsed = Nothing
    /\ requestCount = [b \in 1..NumChunks(ordered_sources, BATCH_SIZE) |-> 0]
    /\ sentCount = [s \in Range(ordered_sources) |-> 0]
    /\ identityCount = [s \in Range(ordered_sources) |-> 0]
    /\ failCount = [s \in Range(ordered_sources) |-> 0]
    /\ transportErrors = 0
    /\ checkedSource = <<>>
    /\ checkedTarget = <<>>
    /\ verdict = Nothing
    /\ translations = <<>>
    /\ changed = Nothing
    /\ reads = NoIO
    /\ writes = NoIO

MergeNext ==
    \/ EnsureKnownRegion
    \/ SyncInfoPlists
    \/ ApplyTranslations

MergeSpec == MergeInit /\ [][MergeNext]_vars

\* The entry of key k in a catalog file, Nothing when the file or the key
\* is absent.
EntryOf(file, k) ==
    IF file # Nothing /\ HasKey(file[1].strings, k)
    THEN Some(ValueAt(file[1].strings, k))
    ELSE Nothing

\* The merge wrote the row into the catalog: the entry of the row's source
\* holds the row's target for the target language, in state "translated".
Written(file, row) ==
    /\ HasLocalization(file, row.source, row.target)
    /\ ValueAt(file[1].strings, row.source).localizations[1][TargetLanguage].state = "translated"

\* C20: the merge step writes each row into the app catalog if and only if
\* a context of the row has target "app", and into the widget catalog if
\* and only if a context has target "widget": a row of both groups is
\* written into both, and the entry of the row's source in a catalog whose
\* group the row lacks stays as it was, absent or present.
C20_MergedByTargetGroup ==
    [][(pc = "plists_synced" /\ pc' = "applied") =>
          \A i \in DOMAIN rows :
              /\ IF "app" \in TargetsOfRow(rows[i])
                 THEN Written(appCatalog', rows[i])
                 ELSE EntryOf(appCatalog', rows[i].source) = EntryOf(appCatalog, rows[i].source)
              /\ IF "widget" \in TargetsOfRow(rows[i])
                 THEN Written(widgetCatalog', rows[i])
                 ELSE EntryOf(widgetCatalog', rows[i].source)
                          = EntryOf(widgetCatalog, rows[i].source)]_vars

\* After the merge: a translated row of the app group alone, whose source
\* is a key of the widget catalog, is in the app catalog and the widget
\* catalog has no localization of it.
C20_Witness ==
    /\ pc = "applied"
    /\ \E i \in DOMAIN rows :
          /\ TargetsOfRow(rows[i]) = {"app"}
          /\ rows[i].target # rows[i].source
          /\ Written(appCatalog, rows[i])
          /\ EntryOf(widgetCatalog, rows[i].source) # Nothing
          /\ EntryOf(widgetCatalog, rows[i].source)[1].localizations = Nothing

(***************************************************************************)
(* The catalog writers on their own: update_catalog and                    *)
(* sanitize_catalog_for_symbols of i18n_workflow.py and update_catalog of  *)
(* localize_with_openai.py, each on every catalog file of up to MaxEntries *)
(* entries, in any key order, and every dict of up to MaxPairs             *)
(* translations. The file is the app catalog.                              *)
(***************************************************************************)
MaxEntries == 2

MaxPairs == 2

\* An entry as Xcode extracts it, one auto-flagged with a manual state and
\* two localizations, a stale one localized for the target language and
\* for another, and one auto-flagged and localized for another language
\* only.
EntryPool ==
    {[extractionState |-> None, isCommentAutoGenerated |-> FALSE, localizations |-> Nothing],
     [extractionState |-> "manual", isCommentAutoGenerated |-> TRUE,
      localizations |-> Some([l \in {"es", "fr"} |->
                                IF l = "es" THEN Unit(<<"z">>) ELSE Unit(<<"y">>)])],
     [extractionState |-> "stale", isCommentAutoGenerated |-> FALSE,
      localizations |-> Some([l \in {"es", "fr"} |->
                                IF l = "es" THEN Unit(<<"z">>) ELSE Unit(<<"x">>)])],
     [extractionState |-> None, isCommentAutoGenerated |-> TRUE,
      localizations |-> Some([l \in {"fr"} |-> Unit(<<"y">>)])]}

\* Keys of a catalog: plain ones, a pure format specifier, and a format
\* specifier followed by text.
CatalogKeys == {<<"A", "b">>, <<"b">>, <<"%", "d">>, <<"%", "d", "x">>}

\* Keys and values of a dict of translations.
TranslationKeys == {<<"A", "b">>, <<"B">>, <<"a", "b">>}

TranslationValues == {<<"z">>, <<"y">>}

\* The ordered dicts of at most n items with keys of K and values of V.
RECURSIVE DictsOf(_, _, _)
DictsOf(K, V, n) ==
    IF n = 0 THEN {<<>>}
    ELSE LET shorter == DictsOf(K, V, n - 1)
         IN  shorter \cup
             {Append(d, [key |-> k, value |-> v]) :
                 d \in {x \in shorter : Len(x) = n - 1}, k \in K, v \in V}

\* No key twice.
DistinctKeys(d) == \A i, j \in DOMAIN d : d[i].key = d[j].key => i = j

\* The catalog files read: none, or one with its entries in any order.
CatalogFiles ==
    {Nothing} \cup
    {Some([sourceLanguage |-> "en", strings |-> d, version |-> "1.0"]) :
        d \in {x \in DictsOf(CatalogKeys, EntryPool, MaxEntries) : DistinctKeys(x)}}

\* The dicts passed as translations.
TranslationDicts ==
    {x \in DictsOf(TranslationKeys, TranslationValues, MaxPairs) : DistinctKeys(x)}

\* Everything of a run of main() but the app catalog and the region list,
\* empty.
OutsideCatalog ==
    /\ candidates = <<>>
    /\ batchIdx = 0
    /\ attempt = 0
    /\ pending = <<>>
    /\ feedback = Nothing
    /\ final_targets = EmptyDict
    /\ validations = EmptyDict
    /\ rows = <<>>
    /\ request = Nothing
    /\ translated = Nothing
    /\ parsed = Nothing
    /\ requestCount = <<>>
    /\ sentCount = EmptyDict
    /\ identityCount = EmptyDict
    /\ failCount = EmptyDict
    /\ transportErrors = 0
    /\ plist_by_key = EmptyDict
    /\ widgetCatalog = Nothing
    /\ appInfoPlist = Nothing
    /\ widgetInfoPlist = Nothing
    /\ infoPlistStrings = Nothing
    /\ resultsArtifact = Nothing
    /\ args = ApplyArgs
    /\ scan = NoScan
    /\ exit = Nothing
    /\ artifactDir = FALSE
    /\ candidatesArtifact = Nothing
    /\ checkedSource = <<>>
    /\ checkedTarget = <<>>
    /\ verdict = Nothing
    /\ reads = NoIO
    /\ writes = NoIO

\* What the catalog writers leave alone.
besideCatalog ==
    <<candidates, orchestratorVars, rows, historyVars, plist_by_key, widgetCatalog,
      knownRegions, appInfoPlist, widgetInfoPlist, infoPlistStrings, resultsArtifact,
      startupVars, validatorVars, ioVars, translations>>

CatalogInit ==
    /\ OutsideCatalog
    /\ knownRegions = <<>>
    /\ pc = "catalog"
    /\ appCatalog \in CatalogFiles
    /\ translations \in TranslationDicts
    /\ changed = Nothing

\* changed = update_catalog(catalog_path, language, translations)
\* (i18n_workflow.py:760).
UpdateCatalog ==
    /\ pc = "catalog"
    /\ LET updated == update_catalog(appCatalog, TargetLanguage, translations)
       IN  /\ appCatalog' = updated.file
           /\ changed' = Some(updated.changed)
    /\ pc' = "updated"
    /\ UNCHANGED besideCatalog

\* sanitize_catalog_for_symbols(catalog_path, language), after
\* update_catalog as apply_translations calls it (i18n_workflow.py:762) or
\* on the file as it was read.
SanitizeCatalog ==
    /\ pc \in {"catalog", "updated"}
    /\ LET cleaned == sanitize_catalog_for_symbols(appCatalog, TargetLanguage)
       IN  /\ appCatalog' = cleaned.file
           /\ changed' = Some(cleaned.changed)
    /\ pc' = IF pc = "catalog" THEN "sanitized" ELSE "updated_sanitized"
    /\ UNCHANGED besideCatalog

\* update_catalog(path, source_lang, target_lang, pairs) of
\* localize_with_openai.py, with the pair (target, source) of every
\* translation (localize_with_openai.py:513-518): it translates from "es"
\* to "en".
LocalizeUpdateCatalog ==
    /\ pc = "catalog"
    /\ translations # <<>>
    /\ appCatalog' = localize_update_catalog(appCatalog, "es", "en",
                        [i \in DOMAIN translations |->
                            [target_text |-> translations[i].value,
                             source_text |-> translations[i].key]])
    /\ pc' = "localize_updated"
    /\ UNCHANGED <<besideCatalog, changed>>

CatalogNext ==
    \/ UpdateCatalog
    \/ SanitizeCatalog
    \/ LocalizeUpdateCatalog

CatalogSpec == CatalogInit /\ [][CatalogNext]_vars

(***************************************************************************)
(* Properties of the catalog writers.                                      *)
(***************************************************************************)
\* The keys of a catalog file, none for an absent file.
KeysOfFile(file) == IF file = Nothing THEN {} ELSE Range(Keys(file[1].strings))

\* The value a catalog file stores under key k for language l, Nothing
\* when the entry or the localization is absent.
StoredValue(file, k, l) ==
    IF /\ EntryOf(file, k) # Nothing
       /\ EntryOf(file, k)[1].localizations # Nothing
       /\ l \in DOMAIN EntryOf(file, k)[1].localizations[1]
    THEN Some(EntryOf(file, k)[1].localizations[1][l].value)
    ELSE Nothing

\* A step of update_catalog of i18n_workflow.py.
UpdateStep == pc = "catalog" /\ pc' = "updated"

\* C21: update_catalog leaves every entry whose key is not a key of the
\* merged translations as it was: none is removed and none changes its
\* content, wherever it stands in the key order afterwards.
C21_UnrelatedEntriesPreserved ==
    [][UpdateStep =>
          \A k \in KeysOfFile(appCatalog) \ Range(Keys(translations)) :
              /\ k \in KeysOfFile(appCatalog')
              /\ EntryOf(appCatalog', k) = EntryOf(appCatalog, k)]_vars

\* After a merge of two translations: the catalog holds a third key, not
\* merged, with an entry without localization and one of the merged keys.
C21_Witness ==
    /\ pc = "updated"
    /\ Len(translations) = 2
    /\ \E k \in KeysOfFile(appCatalog) \ Range(Keys(translations)) :
          EntryOf(appCatalog, k)[1].localizations = Nothing
    /\ \E k \in KeysOfFile(appCatalog) \ Range(Keys(translations)) :
          EntryOf(appCatalog, k)[1].localizations # Nothing

\* C22: the count update_catalog returns is the number of keys of the
\* translations whose value stored for the target language before the
\* merge was absent or different from the new value.
C22_ChangedCountsDifferences ==
    [][UpdateStep =>
          changed' = Some(Cardinality(
              {i \in DOMAIN translations :
                  StoredValue(appCatalog, translations[i].key, TargetLanguage)
                      # Some(translations[i].value)}))]_vars

\* A merge of two translations that counted one: the other was stored
\* already.
C22_Witness ==
    /\ pc = "updated"
    /\ Len(translations) = 2
    /\ changed = Some(1)

\* The keys of the file are in case-insensitive order.
SortedKeys(file) ==
    \A i \in 1..(Len(file[1].strings) - 1) :
        LowerLeq(file[1].strings[i].key, file[1].strings[i + 1].key)

\* A step of sanitize_catalog_for_symbols, and one that wrote the file.
SanitizeStep == pc \in {"catalog", "updated"} /\ pc' \in {"sanitized", "updated_sanitized"}

SanitizeWrote == SanitizeStep /\ changed' # Some(0)

\* C23: every file update_catalog writes, and every file the sanitize pass
\* writes, has its keys in case-insensitive order, whatever the key order
\* of the file read and the order of the translations.
C23_WritesSortedKeys ==
    [][(UpdateStep \/ SanitizeWrote) => SortedKeys(appCatalog')]_vars

\* A file of four keys written by a merge whose translations came in the
\* order "B", "Ab".
C23_Witness ==
    /\ pc = "updated"
    /\ Keys(translations) = <<<<"B">>, <<"A", "b">>>>
    /\ Len(appCatalog[1].strings) = 4
    /\ Keys(appCatalog[1].strings)[1] = <<"%", "d">>

\* The languages a catalog of the model is localized for.
CatalogLanguages == {"es", "fr"}

\* The step removed the localization of key k for language l.
Removed(k, l) ==
    /\ StoredValue(appCatalog, k, l) # Nothing
    /\ StoredValue(appCatalog', k, l) = Nothing

\* The key is one format specifier and nothing else.
IsPureSpecifier(k) == FindPlaceholders(k, 1) = <<k>>

\* The entry of key k in the file read is auto-flagged.
AutoFlagged(k) == EntryOf(appCatalog, k)[1].isCommentAutoGenerated

\* C24 as stated: the sanitize pass removes a localization only of a key
\* that is purely a format specifier and auto-flagged, and only for the
\* target language.
C24_RemovesOnlyPureSpecifiers ==
    [][SanitizeStep =>
          \A k \in KeysOfFile(appCatalog), l \in CatalogLanguages :
              Removed(k, l) =>
                  IsPureSpecifier(k) /\ AutoFlagged(k) /\ l = TargetLanguage]_vars

\* C24: the sanitize pass removes the localization of a key for a language
\* exactly when the key starts with "%", its entry is auto-flagged and the
\* language is the target language; it removes no key, and the entry of
\* every key that does not start with "%" or is not auto-flagged stays as
\* it was.
C24_RemovesOnlyFlaggedPercentKeys ==
    [][SanitizeStep =>
          /\ KeysOfFile(appCatalog') = KeysOfFile(appCatalog)
          /\ \A k \in KeysOfFile(appCatalog) :
                /\ \A l \in CatalogLanguages :
                      (StoredValue(appCatalog', k, l) = Nothing) <=>
                          \/ StoredValue(appCatalog, k, l) = Nothing
                          \/ StartsWith(k, <<"%">>) /\ AutoFlagged(k) /\ l = TargetLanguage
                /\ ~(StartsWith(k, <<"%">>) /\ AutoFlagged(k)) =>
                      EntryOf(appCatalog', k) = EntryOf(appCatalog, k)]_vars

\* The sanitize pass took the target-language localization and the manual
\* state from the auto-flagged key "%dx", which is more than a format
\* specifier, and left its other localization.
C24_Witness ==
    /\ pc = "sanitized"
    /\ changed = Some(2)
    /\ Keys(appCatalog[1].strings) = <<<<"%", "d", "x">>>>
    /\ StoredValue(appCatalog, <<"%", "d", "x">>, TargetLanguage) = Nothing
    /\ StoredValue(appCatalog, <<"%", "d", "x">>, "fr") # Nothing

\* A step of update_catalog of localize_with_openai.py.
LocalizeUpdateStep == pc = "catalog" /\ pc' = "localize_updated"

\* The merge of i18n_workflow.py keys on the source: every key it adds is
\* the source of a translation and stores its target for the target
\* language.
KeyedOnSource(language) ==
    \A k \in KeysOfFile(appCatalog') \ KeysOfFile(appCatalog) :
        \E i \in DOMAIN translations :
            /\ translations[i].key = k
            /\ StoredValue(appCatalog', k, language) = Some(translations[i].value)

\* C25 as stated: in both scripts every key a merge adds is the source
\* text of a merged row and stores the row's target for the target
\* language ("es" for i18n_workflow.py, "en" for localize_with_openai.py).
C25_BothKeyedOnSource ==
    [][/\ UpdateStep => KeyedOnSource(TargetLanguage)
       /\ LocalizeUpdateStep => KeyedOnSource("en")]_vars

\* C25: every key update_catalog of i18n_workflow.py adds is the source
\* text of a merged row and stores the row's target for the target
\* language; every key update_catalog of localize_with_openai.py adds is
\* the target text of a merged row and stores the row's source text for
\* the source language.
C25_KeyedOnSourceOrOnTarget ==
    [][/\ UpdateStep => KeyedOnSource(TargetLanguage)
       /\ LocalizeUpdateStep =>
              \A k \in KeysOfFile(appCatalog') \ KeysOfFile(appCatalog) :
                  \E i \in DOMAIN translations :
                      /\ translations[i].value = k
                      /\ StoredValue(appCatalog', k, "es") = Some(translations[i].key)
                      /\ StoredValue(appCatalog', k, "en") = Nothing]_vars

\* The catalog localize_with_openai.py wrote for the row "Ab" -> "z": the
\* key is "z" and its localization for "es" is "Ab".
C25_Witness ==
    /\ pc = "localize_updated"
    /\ translations = <<[key |-> <<"A", "b">>, value |-> <<"z">>]>>
    /\ appCatalog[1].sourceLanguage = "en"
    /\ KeysOfFile(appCatalog) = {<<"z">>}
    /\ StoredValue(appCatalog, <<"z">>, "es") = Some(<<"A", "b">>)

(***************************************************************************)
(* Reads and writes of the shared files by the merge steps.                *)
(***************************************************************************)
\* C26: when the merge steps of a run are done, each catalog file has been
\* read exactly once and written exactly once, and the manifest has been
\* read exactly once and written at most once.
C26_SharedFilesReadOnceWrittenOnce ==
    pc = "applied" =>
        /\ \A f \in {AppCatalogPath, WidgetCatalogPath} : reads[f] = 1 /\ writes[f] = 1
        /\ reads[PbxPath] = 1
        /\ writes[PbxPath] <= 1

(***************************************************************************)
(* Properties of the batching of translate_candidates.                     *)
(***************************************************************************)
\* C27: the batches are consecutive chunks of the source list: their
\* concatenation in order is the list, no batch is empty, none is longer
\* than BATCH_SIZE and every batch but the last has exactly BATCH_SIZE
\* sources.
C27_BatchesPartitionSources ==
    /\ Concat(Batches) = ordered_sources
    /\ \A k \in DOMAIN Batches :
          /\ Len(Batches[k]) >= 1
          /\ Len(Batches[k]) <= BATCH_SIZE
          /\ k < Len(Batches) => Len(Batches[k]) = BATCH_SIZE

\* The request in flight carries the last batch, which is shorter than the
\* full batch before it.
C27_Witness ==
    /\ pc = "awaiting"
    /\ Len(Batches) = 2
    /\ batchIdx = 2
    /\ Len(Batches[1]) = BATCH_SIZE
    /\ Len(Batches[2]) < BATCH_SIZE
    /\ request[1].sources = Batches[2]

\* C28: every request carries sources of one batch only, the batch in
\* hand; no request of a batch follows a request of a later batch; the
\* first request of a batch is attempt 0 and carries the whole batch and no
\* feedback; the attempts of a batch are counted from 0 whatever the
\* earlier batches used, up to MAX_RETRIES.
C28_BatchesIndependentInOrder ==
    [][(pc = "call" /\ pc' = "awaiting") =>
          /\ request'[1].batch = batchIdx
          /\ Range(request'[1].sources) \subseteq Range(Batches[batchIdx])
          /\ \A b \in DOMAIN requestCount : b > batchIdx => requestCount'[b] = 0
          /\ request # Nothing => request[1].batch <= request'[1].batch
          /\ (request = Nothing \/ request[1].batch # request'[1].batch) =>
                request'[1].attempt = 0
          /\ request'[1].attempt = 0 =>
                /\ request'[1].feedback = Nothing
                /\ request'[1].sources = Batches[batchIdx]
          /\ request'[1].attempt = requestCount[batchIdx]
          /\ request'[1].attempt <= MAX_RETRIES]_vars

\* The second batch is at its last attempt after the first batch used all
\* of its own.
C28_Witness ==
    /\ pc = "awaiting"
    /\ batchIdx = 2
    /\ requestCount[1] = MAX_RETRIES + 1
    /\ requestCount[2] = MAX_RETRIES + 1
    /\ request[1].attempt = MAX_RETRIES

(***************************************************************************)
(* Region registration on its own: ensure_known_region and the sync of the *)
(* Info.plist files on every knownRegions block of up to MaxRegionLines    *)
(* lines.                                                                  *)
(***************************************************************************)
MaxRegionLines == 3

\* The lines of a knownRegions block: a region as the script writes it, a
\* region written another way (quoted, other indentation), a line without
\* a token.
RegionLines ==
    {[region |-> r, canonical |-> c] : r \in {"en", "es", "Base"}, c \in BOOLEAN}
        \cup {[region |-> "", canonical |-> FALSE]}

\* The blocks of at most n lines.
RECURSIVE BlocksOf(_)
BlocksOf(n) ==
    IF n = 0 THEN {<<>>}
    ELSE LET shorter == BlocksOf(n - 1)
         IN  shorter \cup {Append(b, l) : b \in {x \in shorter : Len(x) = n - 1},
                                          l \in RegionLines}

RegionInit ==
    /\ OutsideCatalog
    /\ appCatalog = Nothing
    /\ translations = <<>>
    /\ changed = Nothing
    /\ pc = "results_written"
    /\ knownRegions \in BlocksOf(MaxRegionLines)

\* ensure_known_region(project_root, language) of the next run of main()
\* for the same language (i18n_workflow.py:842), on the manifest the first
\* call left.
EnsureKnownRegionAgain ==
    /\ pc = "region_ensured"
    /\ knownRegions' = ensure_known_region(knownRegions, TargetLanguage).block
    /\ reads' = [reads EXCEPT ![PbxPath] = @ + 1]
    /\ writes' = [writes EXCEPT ![PbxPath] =
                      IF ensure_known_region(knownRegions, TargetLanguage).changed
                      THEN @ + 1 ELSE @]
    /\ pc' = "region_ensured_again"
    /\ UNCHANGED <<startupVars, validatorVars, catalogVars, candidates, orchestratorVars, rows, historyVars, plist_by_key,
                   appCatalog, widgetCatalog, appInfoPlist, widgetInfoPlist,
                   infoPlistStrings, resultsArtifact>>

RegionNext == EnsureKnownRegion \/ EnsureKnownRegionAgain \/ SyncInfoPlists

RegionSpec == RegionInit /\ [][RegionNext]_vars

\* The regions of a block, line by line, and those that are tokens.
RegionsOf(block) == [i \in DOMAIN block |-> block[i].region]

TokensOf(block) == Range(RegionsOf(block)) \ {""}

\* A step of ensure_known_region.
EnsureStep == pc = "results_written" /\ pc' = "region_ensured"

\* The regions of the block read, each once, "Base" left out.
OthersRead == SelectSeq(get_known_regions(knownRegions), LAMBDA r : r # "Base")

\* The list left behind, "Base" left out.
OthersLeft == SelectSeq(RegionsOf(knownRegions'), LAMBDA r : r # "Base")

\* The members of the list left are the regions read and the language, the
\* language occurs once in it, and "Base", when present, is its last
\* element; a language already present leaves the other regions in order.
RegisteredOnce ==
    LET after == RegionsOf(knownRegions')
    IN  /\ Range(after) = TokensOf(knownRegions) \cup {TargetLanguage}
        /\ Count(after, TargetLanguage) = 1
        /\ "Base" \in Range(after) =>
              after[Len(after)] = "Base" /\ Count(after, "Base") = 1
        /\ TargetLanguage \in TokensOf(knownRegions) => OthersLeft = OthersRead

\* C29 as stated: ensure_known_region appends the language when absent
\* (it comes after every other region, "Base" excepted) and leaves the
\* membership unchanged when present; afterwards the language occurs
\* exactly once and "Base", when present, is the last element.
C29_LanguageAppendedOnce ==
    [][EnsureStep =>
          /\ RegisteredOnce
          /\ TargetLanguage \notin TokensOf(knownRegions) =>
                OthersLeft = Append(OthersRead, TargetLanguage)]_vars

\* C29, amended: ensure_known_region adds the language when absent, at the
\* end of the list when the block has no "Base" and at the place "Base"
\* held when it has one, ahead of the regions that followed "Base"; it
\* leaves the membership unchanged when the language is present;
\* afterwards the language occurs exactly once and "Base", when present,
\* is the last element.
C29_LanguageInsertedOnce ==
    [][EnsureStep =>
          /\ RegisteredOnce
          /\ TargetLanguage \notin TokensOf(knownRegions) =>
                LET unique == get_known_regions(knownRegions)
                IN  IF "Base" \in Range(unique)
                    THEN LET b == CHOOSE i \in DOMAIN unique : unique[i] = "Base"
                         IN  OthersLeft = SubSeq(unique, 1, b - 1)
                                              \o <<TargetLanguage>>
                                              \o SubSeq(unique, b + 1, Len(unique))
                    ELSE OthersLeft = Append(unique, TargetLanguage)]_vars

\* The manifest was rewritten and lists the language ahead of "en", with
\* "Base" last.
C29_Witness ==
    /\ pc = "region_ensured"
    /\ writes[PbxPath] = 1
    /\ RegionsOf(knownRegions) = <<TargetLanguage, "en", "Base">>

(***************************************************************************)
(* The exchange with the service row by row: translate_candidates on two   *)
(* candidates, answered by any list of up to MaxRows rows.                 *)
(***************************************************************************)
MaxRows == 2

\* A string that is no source of the run.
UnknownSource == <<"q">>

\* The rows a response may carry: for a requested source any of its
\* answers or a target that is not a string, and a plain target for a
\* string that was not requested.
RawRows(sources, others) ==
    UNION {{[source |-> s, target |-> t] :
               t \in {Some(a) : a \in AnswersFor(s)} \cup {Nothing}}
           : s \in Range(sources)}
        \cup {[source |-> o, target |-> Some(TgtPlain)] : o \in others}

\* The lists of at most n rows.
RECURSIVE AnswersOf(_, _)
AnswersOf(rowSet, n) ==
    IF n = 0 THEN {<<>>}
    ELSE LET shorter == AnswersOf(rowSet, n - 1)
         IN  shorter \cup {Append(a, r) : a \in {x \in shorter : Len(x) = n - 1},
                                          r \in rowSet}

\* translate_candidates is about to run on two candidates, in a project
\* without catalogs.
ResponseInit ==
    /\ Init
    /\ Len(candidates) = 2
    /\ appCatalog = Nothing

\* The service answers the request in flight with any list of rows.
ServiceAnswersRows ==
    \E answer \in AnswersOf(RawRows(pending, StraySources \cup {UnknownSource}), MaxRows) :
        /\ parsed' = Some(answer)
        /\ ReceiveResponse(ParseTranslations(answer))

ResponseNext ==
    \/ EnterTranslate
    \/ IssueRequest
    \/ ServiceAnswersRows

ResponseSpec == ResponseInit /\ [][ResponseNext]_vars

(***************************************************************************)
(* Properties of the association of targets with sources.                  *)
(***************************************************************************)
\* A step in which a response is worked off.
AnswerStep == pc = "awaiting" /\ pc' \in {"call", "translated"}

\* The rows of `answer` that are an entry for s.
EntriesFor(answer, s) ==
    {i \in DOMAIN answer : answer[i].source = s /\ answer[i].target # Nothing}

\* The target of the last entry for s, s itself when there is none.
LastEntryOrSource(answer, s) ==
    IF EntriesFor(answer, s) = {} THEN s
    ELSE answer[CHOOSE i \in EntriesFor(answer, s) :
                    \A j \in EntriesFor(answer, s) : j <= i].target[1]

\* The rows of seq in every order.
Reorderings(seq) ==
    {[i \in DOMAIN seq |-> seq[p[i]]] :
        p \in {f \in [DOMAIN seq -> DOMAIN seq] :
                  \A i, j \in DOMAIN seq : f[i] = f[j] => i = j}}

\* What a response does to the results: a pending source whose target is
\* acceptable is finalized with it, a pending source whose target is not
\* stays pending or falls back to the source, and no entry of the
\* response changes the result of a string that is not pending or makes a
\* result for a string that is no source.
ResultsFollow ==
    /\ \A s \in Range(pending) :
          IF Acceptable(s, LastEntryOrSource(parsed'[1], s))
          THEN /\ s \in DOMAIN final_targets'
               /\ final_targets'[s] = LastEntryOrSource(parsed'[1], s)
               /\ validations'[s] = "ok"
               /\ pc' = "call" => s \notin Range(pending')
          ELSE \/ s \in Range(pending') /\ attempt' = attempt + 1
               \/ /\ s \in DOMAIN final_targets'
                  /\ final_targets'[s] = s
                  /\ validations'[s] = "fallback_due_to_validation"
    /\ \A s \in DOMAIN final_targets \ Range(pending) :
          /\ s \in DOMAIN final_targets'
          /\ final_targets'[s] = final_targets[s]
          /\ validations'[s] = validations[s]
    /\ DOMAIN final_targets' \subseteq DOMAIN final_targets \cup Range(pending)
    /\ DOMAIN validations' = DOMAIN final_targets'
    /\ pc' = "translated" =>
          [i \in DOMAIN rows' |-> rows'[i].source] = ordered_sources

\* C30 as stated: the target taken for a pending source s is that of the
\* response entry whose source is s, whatever the position or order of the
\* entries of the response, and entries for strings that are not pending
\* change no result.
C30_TargetByExactMatchInAnyOrder ==
    [][AnswerStep =>
          /\ ResultsFollow
          /\ \A reordered \in Reorderings(parsed'[1]) :
                \A s \in Range(pending) :
                    TargetOf(ParseTranslations(reordered), s)
                        = TargetOf(translated'[1], s)]_vars

\* C30, amended: the target taken for a pending source s is that of the
\* last entry of the response whose source is s (s itself when there is
\* none): the order of the entries matters only among several entries
\* for the same source, and entries for strings that are not pending
\* change no result.
C30_TargetOfLastExactMatch ==
    [][AnswerStep =>
          /\ ResultsFollow
          /\ \A s \in Range(pending) :
                TargetOf(translated'[1], s) = LastEntryOrSource(parsed'[1], s)
          /\ \A reordered \in Reorderings(parsed'[1]) :
                \A s \in Range(pending) :
                    Cardinality({parsed'[1][i].target : i \in EntriesFor(parsed'[1], s)}) <= 1 =>
                        TargetOf(ParseTranslations(reordered), s)
                            = TargetOf(translated'[1], s)]_vars

\* The last response carried two entries with different targets for a
\* requested source, the first of them not acceptable, and the source was
\* finalized with the target of the second.
C30_Witness ==
    /\ JustAnswered
    /\ \E s \in Range(request[1].sources) :
          /\ EntriesFor(parsed[1], s) = {1, 2}
          /\ ~Acceptable(s, parsed[1][1].target[1])
          /\ Acceptable(s, parsed[1][2].target[1])
          /\ parsed[1][2].target[1] # s
          /\ final_targets[s] = parsed[1][2].target[1]
          /\ validations[s] = "ok"

(***************************************************************************)
(* Properties of the candidate pre-filter and of the grouping.             *)
(***************************************************************************)
\* The texts build_candidates comes across: the keys of the catalogs, the
\* literals of the Swift files of the target groups named, the values of
\* the manifest lines.
ScannedTexts ==
    LET KeysIn(file) == IF file = Nothing THEN {} ELSE Range(Keys(file[1].strings))
        LiteralsIn(files) ==
            UNION {{files[i].literals[j].literal : j \in DOMAIN files[i].literals}
                   : i \in DOMAIN files}
    IN  (IF "app" \in Range(args.include_targets)
         THEN KeysIn(appCatalog) \cup LiteralsIn(scan.app) ELSE {})
        \cup (IF "widget" \in Range(args.include_targets)
              THEN KeysIn(widgetCatalog) \cup LiteralsIn(scan.widget) ELSE {})
        \cup {scan.pbx[i].value : i \in DOMAIN scan.pbx}

\* text has a letter outside its format specifiers, from index i on.
RECURSIVE HasWordsFrom(_, _)
HasWordsFrom(text, i) ==
    IF i > Len(text) THEN FALSE
    ELSE LET e == PlaceholderMatchEnd(text, i)
         IN  IF e # 0 THEN HasWordsFrom(text, e + 1)
             ELSE IsAlpha(text[i]) \/ HasWordsFrom(text, i + 1)

\* A bare format string: it starts with a format specifier and has no
\* letter outside its format specifiers.
IsBareFormat(text) == StripStartsWithPercent(text) /\ ~HasWordsFrom(text, 1)

\* The sources of the Candidates returned.
CandidateSources == {candidates[i].source : i \in DOMAIN candidates}

\* No Candidate is blank, a symbol name, begins with an interpolation or
\* is without a letter.
NoExcludedCandidate ==
    \A source \in CandidateSources :
        /\ ~IsBlank(source)
        /\ source \notin SKIP_LITERALS
        /\ ~StartsWith(source, <<"\\", "(">>)
        /\ \E i \in DOMAIN source : IsAlpha(source[i])
        /\ ~IsBareFormat(source)

\* C31: no Candidate of build_candidates is blank, in the static exclusion
\* set, begins with an interpolation or is without a letter; and a text
\* scanned is left out for its format only when it is a bare format
\* string: a text that starts with a format specifier and holds words is a
\* Candidate.
C31_OnlyBareFormatsExcluded ==
    pc = "built" =>
        /\ NoExcludedCandidate
        /\ \A text \in ScannedTexts \ CandidateSources :
              \/ IsBlank(text)
              \/ text \in SKIP_LITERALS
              \/ StartsWith(text, <<"\\", "(">>)
              \/ ~\E i \in DOMAIN text : IsAlpha(text[i])
              \/ IsBareFormat(text)

\* The accepted (text, context) pairs of the aggregator that ran.
AcceptedPairs ==
    IF pc = "built"
    THEN Range(BuildFindings(appCatalog, widgetCatalog, scan, args.include_targets))
    ELSE Range(ExtractFindings(scan, args.include_targets, args.source_language))

\* C32: the aggregator, build_candidates or extract_candidates, returns
\* one Candidate for each distinct text of the accepted pairs and no
\* other; a Candidate holds each context its text was found in once, and
\* at least one.
C32_OneCandidatePerTextContextsOnce ==
    pc \in {"built", "extracted"} =>
        /\ CandidateSources = {pair.source : pair \in AcceptedPairs}
        /\ Cardinality(CandidateSources) = Len(candidates)
        /\ \A i \in DOMAIN candidates :
              /\ Range(candidates[i].contexts)
                    = {pair.ctx : pair \in {q \in AcceptedPairs :
                                               q.source = candidates[i].source}}
              /\ Cardinality(Range(candidates[i].contexts)) = Len(candidates[i].contexts)
              /\ candidates[i].contexts # <<>>

\* build_candidates scanned the app group twice and returned a text found
\* in several places.
C32_Witness ==
    /\ pc = "built"
    /\ args.include_targets = <<"app", "app">>
    /\ \E i \in DOMAIN candidates : Len(candidates[i].contexts) >= 2

(***************************************************************************)
(* Properties of the unit check.                                           *)
(***************************************************************************)
\* The unit symbols that occur in text.
UnitsIn(text) == Range(UnitOccurrences(text, 1))

\* C33: the unit check compares sets: a pair that reaches it (same
\* placeholders, same interpolations) fails it exactly when the unit
\* symbols that occur in the source and those that occur in the target
\* differ as sets, however often and in whichever order they occur.
C33_UnitCheckComparesSets ==
    (/\ Validated
     /\ SrcTokens.placeholders = DstTokens.placeholders
     /\ SrcTokens.interpolations = DstTokens.interpolations) =>
        (verdict[1].reason = "unit mismatch"
            <=> UnitsIn(checkedSource) # UnitsIn(checkedTarget))

\* A target that reorders the two unit symbols of its source and drops a
\* repetition was accepted.
C33_Witness ==
    /\ Validated
    /\ UnitOccurrences(checkedSource, 1) = <<UnitF, UnitC, UnitF>>
    /\ UnitOccurrences(checkedTarget, 1) = <<UnitC, UnitF>>
    /\ verdict[1].ok

(***************************************************************************)
(* Properties of the rows and of the end of translate_candidates.          *)
(***************************************************************************)
\* The three shapes of a row.
TranslatedOk(row) ==
    row.status = "translated" /\ row.validation = "ok" /\ row.target # row.source

FallbackOk(row) ==
    row.status = "fallback" /\ row.validation = "ok" /\ row.target = row.source

FallbackDueToValidation(row) ==
    /\ row.status = "fallback"
    /\ row.validation = "fallback_due_to_validation"
    /\ row.target = row.source

\* C34: every row translate_candidates returns is translated with
\* validation "ok" and a target other than the source, a fallback with
\* validation "ok" and the source as target, or a fallback with validation
\* "fallback_due_to_validation" and the source as target; no row carries
\* "fallback_missing_translation" or a mismatch reason.
C34_RowsInThreeShapes ==
    Returned =>
        \A i \in DOMAIN rows :
            \/ TranslatedOk(rows[i])
            \/ FallbackOk(rows[i])
            \/ FallbackDueToValidation(rows[i])

\* translate_candidates returned rows of all three shapes.
C34_Witness ==
    /\ Returned
    /\ \E i \in DOMAIN rows : TranslatedOk(rows[i])
    /\ \E i \in DOMAIN rows : FallbackOk(rows[i])
    /\ \E i \in DOMAIN rows : FallbackDueToValidation(rows[i])

\* translate_candidates with a service whose every call returns: the
\* loops go on for as long as a step is possible.
TranslateNext ==
    \/ EnterTranslate
    \/ IssueRequest
    \/ ServiceAnswers

\* translate_candidates is about to run on as many candidates as the
\* model allows, in a project without catalogs.
TerminationInit ==
    /\ Init
    /\ Len(candidates) = MaxCandidates
    /\ appCatalog = Nothing

\* The call in flight returns: call_openai_batch hands a dict back to
\* translate_candidates.
ServiceReturns == pc = "awaiting" /\ pc' \in {"call", "translated"}

\* The interpreter runs translate_candidates on, and every service call
\* returns.
TerminationSpec ==
    /\ TerminationInit
    /\ [][TranslateNext]_vars
    /\ WF_vars(EnterTranslate)
    /\ WF_vars(IssueRequest)
    /\ WF_pc(ServiceReturns)

\* The requests sent so far, over all batches.
TotalRequests == SumSeq(requestCount)

\* Every candidate has a target and a validation.
AllFinalized ==
    \A i \in DOMAIN candidates :
        /\ candidates[i].source \in DOMAIN final_targets
        /\ candidates[i].source \in DOMAIN validations

\* C35: when every service call returns, translate_candidates sends at
\* most ceil(n/B) * (R + 1) requests for its n candidates and returns,
\* every candidate finalized.
C35_TerminatesWithinRequestBound ==
    /\ [](TotalRequests
             <= NumChunks(ordered_sources, BATCH_SIZE) * (MAX_RETRIES + 1))
    /\ <>(Returned /\ AllFinalized)

\* translate_candidates returned after two batches that each used all
\* their attempts.
C35_Witness ==
    /\ Returned
    /\ Len(Batches) = 2
    /\ TotalRequests = 2 * (MAX_RETRIES + 1)
    /\ AllFinalized

(***************************************************************************)
(* Properties of the merge: when it happens and what it writes.            *)
(***************************************************************************)
\* The results artifact holds a finalized row for every candidate.
ResultsComplete ==
    /\ resultsArtifact # Nothing
    /\ [i \in DOMAIN resultsArtifact[1] |-> resultsArtifact[1][i].source] = ordered_sources
    /\ \A i \in DOMAIN resultsArtifact[1] :
          resultsArtifact[1][i].validation \in {"ok", "fallback_due_to_validation"}

\* C36: in the apply run a catalog, the region list, an Info.plist or
\* InfoPlist.strings changes only in a step taken after every batch was
\* finalized and the results artifact written; after a transport failure,
\* in whichever batch, all of them are as they were before the run.
C36_NoFileModifiedBeforeResults ==
    /\ [][projectVars' # projectVars =>
             /\ ResultsComplete
             /\ pc \in {"results_written", "region_ensured", "plists_synced"}
             /\ request = Nothing]_vars
    /\ [](pc = "raised" => ProjectUntouched)

\* The merge of a run of two batches rewrote the manifest and the app
\* catalog, after the results artifact.
C36_Witness ==
    /\ Len(candidates) > BATCH_SIZE
    /\ ResultsComplete
    /\ writes[PbxPath] = 1
    /\ writes[AppCatalogPath] >= 1
    /\ ~ProjectUntouched

\* The catalog file of a target group.
CatalogOf(group) == IF group = "app" THEN appCatalog ELSE widgetCatalog

\* The catalog holds, for the target language, the untranslated source text
\* of the row under the state tag "translated".
SourceKeptAsTranslation(file, row) ==
    /\ HasLocalization(file, row.source, row.source)
    /\ ValueAt(file[1].strings, row.source).localizations[1][TargetLanguage]
           = [state |-> "translated", value |-> row.source]

\* C37: fallback rows are merged like translated ones. After the merge,
\* for every row of status "fallback" (its target is its source) every
\* catalog of the row's target groups holds a localization for the target
\* language whose value is the untranslated source text and whose state
\* tag is "translated".
C37_FallbackRowsMerged ==
    pc = "applied" =>
        \A i \in DOMAIN rows :
            rows[i].status = "fallback" =>
                /\ rows[i].target = rows[i].source
                /\ \A group \in TargetsOfRow(rows[i]) :
                       SourceKeptAsTranslation(CatalogOf(group), rows[i])

\* After the merge: a row of both groups that fell back because its
\* translation failed validation is in both catalogs with its source text.
C37_Witness ==
    /\ pc = "applied"
    /\ \E i \in DOMAIN rows :
          /\ rows[i].status = "fallback"
          /\ rows[i].validation # "ok"
          /\ TargetsOfRow(rows[i]) = {"app", "widget"}
          /\ SourceKeptAsTranslation(appCatalog, rows[i])
          /\ SourceKeptAsTranslation(widgetCatalog, rows[i])

(***************************************************************************)
(* Properties of update_catalog on the entry of a merged key.              *)
(***************************************************************************)
\* The localizations stored under key k for the languages other than the
\* target language, as a function of the language.
OtherLocalizations(file, k) ==
    IF EntryOf(file, k) = Nothing \/ EntryOf(file, k)[1].localizations = Nothing
    THEN EmptyDict
    ELSE LET locs == EntryOf(file, k)[1].localizations[1]
         IN  [l \in DOMAIN locs \ {TargetLanguage} |-> locs[l]]

\* The keys of the translations that the catalog read already holds.
MergedKeysPresent == Range(Keys(translations)) \cap KeysOfFile(appCatalog)

\* C38: for a merged key update_catalog replaces only the localization of
\* the target language: the localizations of every other language stored
\* under the key are the same before and after, the localization of the
\* target language is the merged value, and an extractionState tag the
\* entry had is the tag it has afterwards.
C38_OnlyTargetLanguageReplaced ==
    [][UpdateStep =>
          \A k \in MergedKeysPresent :
              /\ OtherLocalizations(appCatalog', k) = OtherLocalizations(appCatalog, k)
              /\ StoredValue(appCatalog', k, TargetLanguage)
                     = Some(ValueAt(translations, k))
              /\ EntryOf(appCatalog, k)[1].extractionState # None =>
                     EntryOf(appCatalog', k)[1].extractionState
                         = EntryOf(appCatalog, k)[1].extractionState]_vars

\* After a merge: a merged key whose entry is still stale and still holds
\* the localization of another language, with the merged value for the
\* target language in place of the value the entry had.
C38_Witness ==
    /\ pc = "updated"
    /\ \E k \in Range(Keys(translations)) :
          /\ EntryOf(appCatalog, k) # Nothing
          /\ EntryOf(appCatalog, k)[1].extractionState = "stale"
          /\ StoredValue(appCatalog, k, "fr") = Some(<<"x">>)
          /\ StoredValue(appCatalog, k, TargetLanguage) = Some(<<"y">>)

(***************************************************************************)
(* Properties of ensure_known_region called twice.                         *)
(***************************************************************************)
\* A step of the second call of ensure_known_region.
EnsureAgainStep == pc = "region_ensured" /\ pc' = "region_ensured_again"

\* No region is on two lines of the block.
NoRegionTwice(block) ==
    \A i, j \in DOMAIN block : block[i].region = block[j].region => i = j

\* The regions the call read, "Base" left out, stand in the list it left
\* in the order of their first lines.
OrderOfOthersKept ==
    SelectSeq(OthersLeft, LAMBDA r : r \in TokensOf(knownRegions)) = OthersRead

\* C39: ensure_known_region is idempotent: a second call with the same
\* language leaves the manifest as the first call left it, writes nothing
\* and returns False; and after either call no region is listed twice and
\* the regions listed before the call, other than "Base", are in the
\* relative order they had.
C39_EnsureKnownRegionIdempotent ==
    [][/\ EnsureAgainStep =>
              /\ knownRegions' = knownRegions
              /\ writes' = writes
              /\ ensure_known_region(knownRegions, TargetLanguage).changed = FALSE
       /\ (EnsureStep \/ EnsureAgainStep) =>
              /\ NoRegionTwice(knownRegions')
              /\ OrderOfOthersKept]_vars

\* After the second call: the first call rewrote the manifest, whose block
\* listed "en" twice and "Base" ahead of it, into (es, en, Base), and the
\* second call wrote nothing.
C39_Witness ==
    /\ pc = "region_ensured_again"
    /\ reads[PbxPath] = 2
    /\ writes[PbxPath] = 1
    /\ RegionsOf(knownRegions) = <<TargetLanguage, "en", "Base">>

====
